---- MODULE Spec2Model ----
(***************************************************************************)
(* Session / refresh-credential lifecycle of nest-blog-mongoDB.            *)
(*                                                                         *)
(* The persistent state is the users collection: per user the embedded     *)
(* refreshTokens array and the lastLogin field.  Every HTTP request (and   *)
(* the sweep task) is a process in a request slot; one step of a process   *)
(* is one awaited store operation together with the synchronous code that  *)
(* precedes it.  Time is counted in whole seconds (the resolution of the   *)
(* iat / exp claims of a signed token).                                    *)
(*                                                                         *)
(* jwtService.sign is HMAC over the payload {sub, email, role, iat, exp}:  *)
(* it is deterministic, so the token string is a function of the user,     *)
(* the token class (secret) and the second in which it was signed.         *)
(*                                                                         *)
(* The content store (posts, categories, User.posts) and the calls of      *)
(* PostsService, CategoriesService and the posts controller are modelled   *)
(* beside it; the two parts share no state.                                *)
(***************************************************************************)
EXTENDS Integers, Sequences, FiniteSets, TLC

\* ---------------------------------------------------------------- bounds
MaxClock == 2        \* the clock runs 0..MaxClock
MaxRecs == 2         \* refresh records in the store, all users together
RefreshTTL == 1      \* JWT_REFRESH_EXPIRATION, in clock ticks
AccessTTL == 1       \* JWT_ACCESS_EXPIRATION, in clock ticks
MaxPosts == 2        \* post documents ever created
MaxCats == 2         \* category documents ever created
MaxRefs == 2         \* entries of one posts array
MaxViews == 1        \* Post.viewCount counts 0..MaxViews

Users == {"u1", "u2"}
Emails == Users \cup {"nobody"}    \* a user's email stands for the user
Passwords == {"pw", "bad"}         \* every user's password is "pw"
Req == {1, 2}
DeviceInputs == {"laptop", ""}      \* "" : loginDto.deviceInfo absent

VARIABLES
    now,            \* the server clock (Date.now(), in seconds)
    refreshTokens,  \* User.refreshTokens : per user, the stored array
    lastLogin,      \* User.lastLogin : per user, -1 when never set
    updatedAt,      \* User.updatedAt (schema option timestamps) : per user,
                    \* -1 when not written since the clock started
    strategy,       \* which of the two JwtRefreshStrategy copies is built
    users,          \* the documents of the users collection (their ids)
    secrets,        \* the configuration: JWT_ACCESS_SECRET and
                    \* JWT_REFRESH_SECRET, "" when not configured
    req,            \* the request slots
    hist,           \* history: at most one <<token, kind>>, a token that a
                    \* completed request of that kind took out of the store
                    \* and that still passes signature verification
    posts,          \* the posts collection: per id, the document
    categories,     \* the categories collection: per id, the document
    userPosts,      \* User.posts : per user, the array of post ids
    calls           \* the calls of PostsService / CategoriesService (and of
                    \* the posts controller) in progress, one per slot

\* the content store and the calls working on it
blog == <<posts, categories, userPosts, calls>>

\* the session store, its configuration and its requests
auth == <<now, refreshTokens, lastLogin, updatedAt, users, strategy, secrets, req, hist>>

vars == <<now, refreshTokens, lastLogin, updatedAt, users, strategy, secrets, req, hist,
          posts, categories, userPosts, calls>>

\* ---------------------------------------------------------------- tokens

\* the configurations in which login can sign both tokens
Configured == [access |-> "A", refresh |-> "R"]

\* the secret jwtService.sign uses: options.secret, else the secret JwtModule
\* was registered with (JWT_ACCESS_SECRET)
signKey(cls) == IF secrets[cls] # "" THEN secrets[cls] ELSE secrets.access

\* secretOrKey of the two strategies
verifyKey(cls) ==
    IF secrets[cls] # "" THEN secrets[cls]
    ELSE IF cls = "refresh" THEN "IAmOutOfSecretPhrasesButIStillGotThisInMe"
    ELSE "HeWhoGotGodIsNotBoundToFailInLife"

\* jwtService.sign(payload, {secret, expiresIn}) at second t: the string is
\* determined by the payload, iat, exp and the secret
sign(u, cls, t) ==
    LET ttlOf(cls0) == IF cls0 = "refresh" THEN RefreshTTL ELSE AccessTTL
    IN
                   [sub |-> u, key |-> signKey(cls), iat |-> t, exp |-> t + ttlOf(cls)]

NoToken == [sub |-> "", key |-> "", iat |-> -1, exp |-> -1]

\* passport-jwt verification with the refresh secret, ignoreExpiration false
verifyRefresh(tok, t) == tok.key = verifyKey("refresh") /\ t < tok.exp

\* variant of verifyAccess that also asks for a stored refresh record
verifyAccessStored(tok, t) ==
    /\ tok.key = verifyKey("access") /\ t < tok.exp /\ tok.sub \in users
    /\ refreshTokens[tok.sub] # <<>>

\* JwtStrategy: verification with the access secret, then findById(payload.sub)
verifyAccess(tok, t) ==
    tok.key = verifyKey("access") /\ t < tok.exp /\ tok.sub \in users

\* the token strings a client can present at time t: any refresh token signed
\* so far, and the access tokens that have not yet expired
Presentable(t) ==
    {sign(u, "refresh", i) : u \in Users, i \in 0..t}
    \cup {sign(u, "access", i) : u \in Users, i \in {j \in 0..t : t < j + AccessTTL}}

\* ------------------------------------------------------------ extraction
\* A string of a request (a cookie value, the Authorization header, what is
\* extracted from them) is a pair <<w, t>>: the token string t with the text w
\* and a blank before it.  <<"", t>> is the token string itself
Str(t) == <<"", t>>

Empty == <<"", NoToken>>            \* the empty string

Absent == <<"undefined", NoToken>>  \* no such cookie, no such header

Falsy(x) == x \in {Absent, Empty}

\* the cookie values and Authorization headers of a request at time t
CookieInputs(t) == {Absent, Empty} \cup {Str(x) : x \in Presentable(t)}

HeaderInputs(t) ==
    LET \* the schemes a client may write in front of the token: none, the two
        \* spellings of bearer, another scheme
        Schemes == {"", "Bearer", "bearer", "Basic"}
    IN
    {Absent, Empty} \cup {<<w, x>> : w \in Schemes, x \in Presentable(t) \cup {NoToken}}

\* ExtractJwt.fromExtractors([cookie, fromAuthHeaderAsBearerToken()]): the
\* first extractor that returns a token wins
fromExtractors(c, h) ==
    LET \* ExtractJwt.fromAuthHeaderAsBearerToken(): the header is "scheme value",
        \* the scheme compared without regard to case
        fromAuthHeaderAsBearerToken(h0) ==
            LET toLowerCase(w) == IF w = "Bearer" THEN "bearer" ELSE IF w = "Basic" THEN "basic" ELSE w
            IN
            IF Falsy(h0) \/ h0[1] = "" \/ h0[2] = NoToken THEN Absent
            ELSE IF toLowerCase(h0[1]) = "bearer" THEN Str(h0[2])
            ELSE Absent
    IN
                        IF ~Falsy(c) THEN c ELSE fromAuthHeaderAsBearerToken(h)

\* req.cookies?.[name] || req.get('authorization')?.replace('Bearer', '').trim()
cookieOrHeader(c, h) ==
    LET \* h0.replace('Bearer', '').trim()
        replaceBearerTrim(h0) == IF h0[1] = "Bearer" THEN Str(h0[2]) ELSE h0
    IN
    IF ~Falsy(c) THEN c
    ELSE IF h = Absent THEN Absent
    ELSE replaceBearerTrim(h)

\* ----------------------------------------------------------------- store
calculateExpirationDate(t) == t + RefreshTTL

\* variant of pullToken that removes only the first matching element
pullFirst(s, t) ==
    IF \A i \in 1..Len(s) : s[i].token # t THEN s
    ELSE LET i == CHOOSE k \in 1..Len(s) : s[k].token = t /\ \A j \in 1..(k - 1) : s[j].token # t
         IN SubSeq(s, 1, i - 1) \o SubSeq(s, i + 1, Len(s))

\* $pull: { refreshTokens: { token: t } }
pullToken(s, t) == SelectSeq(s, LAMBDA rec : rec.token # t)

\* variant of pullExpired with $lte in place of $lt
pullExpiredLte(s, cutoff) == SelectSeq(s, LAMBDA rec : ~(rec.expiresAt <= cutoff))

\* variant of pullExpired with $gt in place of $lt
pullExpiredGt(s, cutoff) == SelectSeq(s, LAMBDA rec : ~(rec.expiresAt > cutoff))

\* variant of pullExpired that removes only the first expired element
pullFirstExpired(s, cutoff) ==
    IF \A i \in 1..Len(s) : ~(s[i].expiresAt < cutoff) THEN s
    ELSE LET i == CHOOSE k \in 1..Len(s) :
                     s[k].expiresAt < cutoff /\ \A j \in 1..(k - 1) : ~(s[j].expiresAt < cutoff)
         IN SubSeq(s, 1, i - 1) \o SubSeq(s, i + 1, Len(s))

\* $pull: { refreshTokens: { expiresAt: { $lt: cutoff } } }
pullExpired(s, cutoff) == SelectSeq(s, LAMBDA rec : ~(rec.expiresAt < cutoff))

\* the schema has timestamps: true : every update operator that matches the
\* document of u (findByIdAndUpdate, updateMany) also sets its updatedAt
touch(u) == [updatedAt EXCEPT ![u] = now]

\* findOne({ _id: u, 'refreshTokens.token': t })
hasToken(s, t) == \E i \in 1..Len(s) : s[i].token = t

\* findOne({ _id: u, refreshTokens: { $elemMatch: { token: t, expiresAt: { $gte: now } } } })
hasLiveToken(s, t, at) ==
    \E i \in 1..Len(s) : s[i].token = t /\ s[i].expiresAt >= at

\* user.refreshTokens.find((rt) => rt.token === t)
findToken(s, t) == s[CHOOSE i \in 1..Len(s) : s[i].token = t /\ \A j \in 1..(i - 1) : s[j].token # t]

\* --------------------------------------------------------------- content
\* the posts and categories collections and the posts array of the users
\* collection.  ObjectIds are never reused: a deleted document leaves its
\* id behind as "deleted".
PostIds == 1..MaxPosts
CatIds == 1..MaxCats
Names == {"news", "tech"}
Call == {1, 2}

undefined == "undefined"   \* an argument the caller did not pass
NoIds == <<0>>             \* categoryIds absent from the dto

NoPost == [state |-> "none", title |-> "", authorId |-> "",
           categories |-> <<>>, viewCount |-> 0]
NoCategory == [state |-> "none", name |-> "", posts |-> <<>>]

Range(arr) == {arr[i] : i \in 1..Len(arr)}

livePost(S, p) == p \in PostIds /\ S.posts[p].state = "live"
liveCategory(S, c) == c \in CatIds /\ S.categories[c].state = "live"

\* the three collections as one value
store == [posts |-> posts, categories |-> categories, userPosts |-> userPosts]

IdleCall ==
    LET NoDto == [title |-> "", categoryIds |-> NoIds, authorId |-> ""]
    IN
    [kind |-> "none", pc |-> "idle", user |-> "", post |-> 0,
     cat |-> 0, name |-> "", dto |-> NoDto, seen |-> NoPost, todo |-> <<>>,
     pending |-> <<>>, dirty |-> {}, session |-> "none", res |-> "none"]

InitBlog ==
    /\ posts = [p \in PostIds |-> NoPost]
    /\ categories = [c \in CatIds |-> NoCategory]
    /\ userPosts = [u \in Users |-> <<>>]
    /\ calls = [k \in Call |-> IdleCall]

\* ---------------------------------------------------------- request slots
IdleReq == [kind |-> "none", pc |-> "idle", user |-> "", tok |-> NoToken,
            dev |-> "", access |-> NoToken, newTok |-> NoToken, exp |-> -1,
            removed |-> FALSE, res |-> "none", body |-> [message |-> ""],
            todo |-> {}, clear |-> {}, cleared |-> FALSE, lookup |-> Absent,
            sent |-> {}]

\* appends that running requests are still going to make
InFlightPush ==
    Cardinality({r \in Req : req[r].pc \in {"expiry", "pull", "push"}})

Stored ==
    LET RECURSIVE SumLen(_)
        SumLen(U) == IF U = {} THEN 0
                     ELSE LET u == CHOOSE x \in U : TRUE
                          IN Len(refreshTokens[u]) + SumLen(U \ {u})
    IN SumLen(Users)

Room == Stored + InFlightPush < MaxRecs

\* a new request takes the first free slot (the slots are interchangeable)
Free(r) == req[r].pc = "idle" /\ \A q \in Req : req[q].pc = "idle" => ~(q < r)

Settled(u) ==
    LET Untouched(v) == refreshTokens[v] = <<>> /\ lastLogin[v] = -1 /\ updatedAt[v] = -1
        \* Requests of different users touch different documents and commute.  The
        \* interleavings explored are therefore: requests of any users one after the
        \* other, and requests running concurrently (with each other and with the
        \* sweep) while only one user's document has ever been written
        Busy(r) == req[r].pc \in {"expiry", "pull", "push"}
    IN
    \/ \A r \in Req : ~Busy(r)
    \/ /\ \A v \in Users \ {u} : Untouched(v)
       /\ \A r \in Req : Busy(r) => req[r].user = u

\* no response is waiting to be delivered
Quiet == \A r \in Req : req[r].pc # "done"

\* no request is running.  A request that writes nothing and reads nothing
\* another request writes commutes with every step of the others: it is
\* taken up when nothing else runs
AllIdle == \A r \in Req : req[r].pc = "idle"

\* --------------------------------------------------------------- history

\* the history is empty until it takes up one removal, any one of a token of
\* user u1 (the users are interchangeable), from the step that makes it;
\* HistOff is the history that takes up nothing
HistOff == {<<NoToken, "off">>}

\* HistMarks is the history that takes up no removal and marks, in the slot
\* of a refresh, that a logoutAll cleared the array while the refresh stood
\* between the guard and its first store update
HistMarks == {<<NoToken, "marks">>}

Record(r) ==
    LET \* the tokens the request that completes in this step took out of the store
        Taken(r0) ==
            LET tokensOf(s) == {s[i].token : i \in 1..Len(s)}
            IN
            LET q == req'[r0]
            IN IF q.kind = "refresh" /\ q.removed THEN {<<q.tok, "refresh">>}
               ELSE IF q.kind = "logout" /\ q.removed THEN {<<q.tok, "logout">>}
               ELSE IF q.kind = "logoutAll"
                    THEN {<<t, "logoutAll">> : t \in tokensOf(refreshTokens[q.user])}
               ELSE IF q.kind \in {"sweep", "cron"}
                    THEN {<<t, "sweep">> : t \in UNION {tokensOf(refreshTokens[u]) \ tokensOf(refreshTokens'[u]) : u \in Users}}
               ELSE {}
    IN
    \/ hist' = hist
    \/ hist = {} /\ \E e \in Taken(r) : e[1].sub = "u1" /\ hist' = {e}

Init ==
    /\ now = 0
    /\ refreshTokens = [u \in Users |-> <<>>]
    /\ lastLogin = [u \in Users |-> -1]
    /\ updatedAt = [u \in Users |-> -1]
    /\ users = Users
    /\ strategy \in {1, 2}
    /\ secrets = Configured
    /\ req = [r \in Req |-> IdleReq]
    /\ hist = HistOff
    /\ InitBlog

\* the same program with the first copy of the refresh strategy (the one that
\* looks the record up twice), and the history following one removal
InitH ==
    /\ now = 0
    /\ refreshTokens = [u \in Users |-> <<>>]
    /\ lastLogin = [u \in Users |-> -1]
    /\ updatedAt = [u \in Users |-> -1]
    /\ users = Users
    /\ strategy = 1
    /\ secrets = Configured
    /\ req = [r \in Req |-> IdleReq]
    /\ hist = {}
    /\ InitBlog

\* the same program with the first copy of the refresh strategy, the history
\* marking the refreshes a logoutAll overtakes
InitM ==
    /\ now = 0
    /\ refreshTokens = [u \in Users |-> <<>>]
    /\ lastLogin = [u \in Users |-> -1]
    /\ updatedAt = [u \in Users |-> -1]
    /\ users = Users
    /\ strategy = 1
    /\ secrets = Configured
    /\ req = [r \in Req |-> IdleReq]
    /\ hist = HistMarks
    /\ InitBlog

\* the same program under each configuration of the two secrets
InitC ==
    LET Configs == {Configured,
                    [access |-> "A", refresh |-> "A"],
                    [access |-> "A", refresh |-> ""]}
    IN
    /\ now = 0
    /\ refreshTokens = [u \in Users |-> <<>>]
    /\ lastLogin = [u \in Users |-> -1]
    /\ updatedAt = [u \in Users |-> -1]
    /\ users = Users
    /\ strategy \in {1, 2}
    /\ secrets \in Configs
    /\ req = [r \in Req |-> IdleReq]
    /\ hist = HistOff
    /\ InitBlog

\* the clock advances; the history lets go of a token whose embedded expiry
\* has passed (passport-jwt rejects it from then on, whatever the store holds)
\* One unit of the clock is a token lifetime (days); a bulk update lasts far
\* less, so the clock does not advance while one is running
Tick ==
    /\ Quiet
    /\ \A r \in Req : req[r].pc # "sweep"
    /\ now < MaxClock
    /\ now' = now + 1
    /\ hist' = IF hist \in {HistOff, HistMarks} THEN hist
               ELSE {e \in hist : verifyRefresh(e[1], now + 1)}
    /\ UNCHANGED <<refreshTokens, lastLogin, updatedAt, strategy, secrets, blog, users, req>>

\* the response of a finished request has been delivered; the slot is free
Reset(r) ==
    /\ req[r].pc = "done"
    /\ req' = [req EXCEPT ![r] = IdleReq]
    /\ UNCHANGED <<now, refreshTokens, lastLogin, updatedAt, strategy, secrets, blog, users, hist>>

\* ------------------------------------------------------------- documents
\* User.role: u1 is the administrator
role == [u \in Users |-> IF u = "u1" THEN "admin" ELSE "user"]

\* the document of user u as the store returns it, given its three mutable
\* fields; the email stands for the user, the password field is a hash
userDocument(u, tokens, login, updated) ==
    [_id |-> u, email |-> u, name |-> u, password |-> "bcrypt", bio |-> "",
     role |-> role[u], refreshTokens |-> tokens, lastLogin |-> login,
     posts |-> <<>>, updatedAt |-> updated]

document(u) == userDocument(u, refreshTokens[u], lastLogin[u], updatedAt[u])

\* .select('-password -refreshTokens'), and the rest pattern
\* const { password, refreshTokens, ...rest } = doc.toObject()
without(doc, fields) == [f \in DOMAIN doc \ fields |-> doc[f]]

\* variant of getProfile without the select
getProfileUnselected(u) == document(u)

\* AuthService.getProfile(userId)
getProfile(u) == without(document(u), {"password", "refreshTokens"})

\* the user JwtStrategy.validate attaches to the request
validatedUser(u) == without(document(u), {"password", "refreshTokens"})

\* GET /auth/profile of an authenticated user
GetProfile(r, u) ==
    /\ AllIdle
    /\ Free(r)
    /\ u \in users
    /\ req' = [req EXCEPT ![r] = [IdleReq EXCEPT
                  !.kind = "profile", !.pc = "done", !.user = u, !.res = "ok",
                  !.body = [message |-> "", user |-> getProfile(u)]]]
    /\ UNCHANGED <<now, refreshTokens, lastLogin, updatedAt, strategy, secrets, blog, users, hist>>

\* GET /auth/me of an authenticated user
GetCurrentUser(r, u) ==
    LET \* AuthController.getCurrentUser
        getCurrentUser(user) ==
            [id |-> user._id, email |-> user.email, name |-> user.name,
             role |-> user.role, bio |-> user.bio]
    IN
    /\ AllIdle
    /\ Free(r)
    /\ u \in users
    /\ req' = [req EXCEPT ![r] = [IdleReq EXCEPT
                  !.kind = "me", !.pc = "done", !.user = u, !.res = "ok",
                  !.body = [message |-> "", user |-> getCurrentUser(validatedUser(u))]]]
    /\ UNCHANGED <<now, refreshTokens, lastLogin, updatedAt, strategy, secrets, blog, users, hist>>

\* POST /auth/register with the email e: findOne, then save of a new
\* document (refreshTokens defaults to [], timestamps set updatedAt)
Register(r, e) ==
    /\ AllIdle
    /\ Free(r)
    /\ e \in Users
    /\ IF e \in users
       THEN /\ req' = [req EXCEPT ![r] = [IdleReq EXCEPT
                         !.kind = "register", !.pc = "done", !.res = "conflict",
                         !.body = [message |-> "User with this email already exists"]]]
            /\ UNCHANGED <<users, refreshTokens, lastLogin, updatedAt>>
       ELSE /\ users' = users \cup {e}
            /\ refreshTokens' = [refreshTokens EXCEPT ![e] = <<>>]
            /\ lastLogin' = [lastLogin EXCEPT ![e] = -1]
            /\ updatedAt' = touch(e)
            /\ req' = [req EXCEPT ![r] = [IdleReq EXCEPT
                         !.kind = "register", !.pc = "done", !.user = e, !.res = "ok",
                         !.body = [message |-> "User Registered Successfully",
                                   user |-> without(userDocument(e, <<>>, -1, now),
                                                    {"password", "refreshTokens"})]]]
    /\ UNCHANGED <<now, strategy, secrets, blog, hist>>

\* ----------------------------------------------------------------- login
\* variant of validateUser that tells a wrong password from an unknown email
validateUserTelling(e, p) ==
    IF e \notin users THEN ""
    ELSE IF p # "pw" THEN "wrong password"
    ELSE e

\* AuthService.validateUser(email, password): the user, or "" for null
validateUser(e, p) ==
    IF e \notin users THEN ""
    ELSE IF p # "pw" THEN ""
    ELSE e

\* POST /auth/login with credentials validateUser does not accept: the local
\* guard answers 401 and AuthService.login is not reached; the response
\* carries nothing of the credentials
LoginRejected(r, e, p) ==
    /\ AllIdle
    /\ Free(r)
    /\ validateUser(e, p) = ""
    /\ req' = [req EXCEPT ![r] = [IdleReq EXCEPT
                  !.kind = "login", !.pc = "done", !.res = "unauthorized"]]
    /\ UNCHANGED <<now, refreshTokens, lastLogin, updatedAt, strategy, secrets, blog, users, hist>>

\* variant of loginRecord that stores the access token
loginRecordAccess(tok, at, d) ==
    [token |-> sign(tok.sub, "access", at), createdAt |-> at,
     expiresAt |-> calculateExpirationDate(at),
     deviceInfo |-> IF d = "" THEN "Unknown Device" ELSE d]

loginRecord(tok, at, d) ==
    [token |-> tok, createdAt |-> at, expiresAt |-> calculateExpirationDate(at),
     deviceInfo |-> IF d = "" THEN "Unknown Device" ELSE d]

\* AuthService.login(user, deviceInfo): both tokens are signed, then
\* findByIdAndUpdate(user._id, { $push: { refreshTokens: ... }, lastLogin })
Login(r, u, d) ==
    LET \* the user object AuthService.login returns, for the user validateUser
        \* returned (the document without password and refreshTokens)
        loginUser(user) == [id |-> user._id, email |-> user.email, role |-> user.role, bio |-> user.bio]
    IN
    /\ Quiet
    /\ Free(r)
    /\ validateUser(u, "pw") = u
    /\ Room
    /\ Settled(u)
    /\ refreshTokens' = [refreshTokens EXCEPT
                           ![u] = Append(@, loginRecord(sign(u, "refresh", now), now, d))]
    /\ lastLogin' = [lastLogin EXCEPT ![u] = now]
    /\ updatedAt' = touch(u)
    /\ req' = [req EXCEPT ![r] = [IdleReq EXCEPT
                  !.kind = "login", !.pc = "done", !.user = u, !.dev = d,
                  !.access = sign(u, "access", now),
                  !.newTok = sign(u, "refresh", now),
                  !.exp = calculateExpirationDate(now), !.res = "ok",
                  !.body = [message |-> "Login successful",
                            user |-> loginUser(validatedUser(u))]]]
    /\ UNCHANGED <<now, strategy, secrets, blog, users, hist>>

\* --------------------------------------------------------------- refresh
\* the bound on the store: a refresh replaces a record, so it may start
\* whenever the user's array is not over the bound
RoomToRotate == Stored + InFlightPush <= MaxRecs

\* what JwtRefreshStrategy.validate hands on as user.refreshTokens?.[0]?.deviceInfo:
\* copy 1 selects '-password -refreshTokens' (the field is undefined),
\* copy 2 returns user.toObject() with the whole array
snapshotDevice(s) == IF strategy = 1 THEN "" ELSE s[1].deviceInfo

\* the outcome of the first awaited lookup of JwtRefreshStrategy.validate,
\* after passport-jwt has verified signature and embedded expiry
validateFind(t, s, at) ==
    IF ~verifyRefresh(t, at) THEN "reject"
    ELSE IF ~hasToken(s, t) THEN "reject"
    ELSE IF strategy = 1 THEN "expiry"
    ELSE IF findToken(s, t).expiresAt < at THEN "reject"
    ELSE "admit"

\* variant of validateExpiry whose $elemMatch leaves out the token
validateExpiryAnyLive(t, s, at) ==
    IF \E i \in 1..Len(s) : s[i].expiresAt >= at THEN "admit" ELSE "reject"

\* the second lookup of copy 1 ($elemMatch on token and expiresAt >= now)
validateExpiry(t, s, at) == IF hasLiveToken(s, t, at) THEN "admit" ELSE "reject"

\* whether the refresh guard admits token t of user t.sub when both lookups
\* see the array s at time at
admits(t, s, at) ==
    LET o == validateFind(t, s, at)
    IN o = "admit" \/ (o = "expiry" /\ validateExpiry(t, s, at) = "admit")

\* the message of the 401 a token gets that the guard does not admit, when
\* the lookups see the array s at time at: passport-jwt's own failure, or
\* one of the UnauthorizedException of validate
rejectMessage(t, s, at) ==
    IF ~verifyRefresh(t, at) THEN "Unauthorized"
    ELSE IF ~hasToken(s, t) THEN "Invalid refresh token or user not found"
    ELSE "Refresh token has expired"

Rejected(q, m) ==
    [q EXCEPT !.pc = "done", !.res = "unauthorized",
              !.body = [statusCode |-> 401, message |-> m]]

\* POST /auth/refresh arrives with token t: passport verification and the
\* membership lookup of validate
Validate(r, t) ==
    /\ Quiet
    /\ Free(r)
    /\ t \in Presentable(now)
    /\ RoomToRotate
    /\ Settled(t.sub)
    /\ LET s == refreshTokens[t.sub]
           o == validateFind(t, s, now)
           q == [IdleReq EXCEPT !.kind = "refresh", !.user = t.sub, !.tok = t]
       IN req' = [req EXCEPT ![r] =
                    CASE o = "reject" -> Rejected(q, rejectMessage(t, s, now))
                      [] o = "expiry" -> [q EXCEPT !.pc = "expiry", !.dev = snapshotDevice(s)]
                      [] OTHER -> [q EXCEPT !.pc = "pull", !.dev = snapshotDevice(s)]]
    /\ UNCHANGED <<now, refreshTokens, lastLogin, updatedAt, strategy, secrets, blog, users, hist>>

\* POST /auth/refresh arrives with the refresh_token cookie c and the
\* Authorization header h: passport-jwt extracts and verifies a token, then
\* validate takes the string to look up from the request again.  lookup is
\* that string, once validate has run
RefreshRequest(r, c, h) ==
    LET rejectMessageOf(v, l, s, at) ==
            IF ~verifyRefresh(v[2], at) THEN "Unauthorized"
            ELSE IF Falsy(l) THEN "Refresh token not found"
            ELSE IF l[1] # "" \/ ~hasToken(s, l[2]) THEN "Invalid refresh token or user not found"
            ELSE rejectMessage(l[2], s, at)
        \* the first lookup of validate for the string l, the token of the string v
        \* having been extracted by passport-jwt
        validateFindOf(v, l, s, at) ==
            IF ~verifyRefresh(v[2], at) THEN "reject"
            ELSE IF Falsy(l) \/ l[1] # "" \/ ~hasToken(s, l[2]) THEN "reject"
            ELSE validateFind(l[2], s, at)
    IN
    /\ Quiet
    /\ Free(r)
    /\ c \in CookieInputs(now)
    /\ h \in HeaderInputs(now)
    /\ RoomToRotate
    /\ LET v == fromExtractors(c, h)
           l == cookieOrHeader(c, h)
       IN IF Falsy(v)
          THEN /\ AllIdle
               /\ req' = [req EXCEPT ![r] =
                            Rejected([IdleReq EXCEPT !.kind = "refresh"], "Unauthorized")]
          ELSE LET t == v[2]
                   s == refreshTokens[t.sub]
                   o == validateFindOf(v, l, s, now)
                   q == [IdleReq EXCEPT !.kind = "refresh", !.user = t.sub, !.tok = t,
                                        !.lookup = IF verifyRefresh(t, now) THEN l ELSE Absent]
               IN /\ Settled(t.sub)
                  /\ (~verifyRefresh(t, now) \/ l[1] # "") => AllIdle
                  /\ req' = [req EXCEPT ![r] =
                               CASE o = "reject" -> Rejected(q, rejectMessageOf(v, l, s, now))
                                 [] o = "expiry" -> [q EXCEPT !.pc = "expiry", !.dev = snapshotDevice(s)]
                                 [] OTHER -> [q EXCEPT !.pc = "pull", !.dev = snapshotDevice(s)]]
    /\ UNCHANGED <<now, refreshTokens, lastLogin, updatedAt, strategy, secrets, blog, users, hist>>

\* copy 1 only: the expiry lookup
ValidateExpiry(r) ==
    /\ Quiet
    /\ req[r].pc = "expiry"
    /\ req' = [req EXCEPT ![r] =
                 IF validateExpiry(req[r].tok, refreshTokens[req[r].user], now) = "admit"
                 THEN [@ EXCEPT !.pc = "pull"]
                 ELSE Rejected(@, "Refresh token has expired")]
    /\ UNCHANGED <<now, refreshTokens, lastLogin, updatedAt, strategy, secrets, blog, users, hist>>

\* AuthService.refreshTokens up to the first store call: both tokens are
\* signed, then findByIdAndUpdate(user._id, { $pull: { refreshTokens: { token: old } } });
\* removed : whether the document the call returns still held the old token
RefreshPull(r) ==
    /\ Quiet
    /\ req[r].pc = "pull"
    /\ refreshTokens' = [refreshTokens EXCEPT ![req[r].user] = pullToken(@, req[r].tok)]
    /\ req' = [req EXCEPT ![r].pc = "push",
                          ![r].access = sign(req[r].user, "access", now),
                          ![r].newTok = sign(req[r].user, "refresh", now),
                          ![r].exp = calculateExpirationDate(now),
                          ![r].removed = hasToken(refreshTokens[req[r].user], req[r].tok)]
    /\ updatedAt' = touch(req[r].user)
    /\ UNCHANGED <<now, lastLogin, strategy, secrets, blog, users, hist>>

rotatedRecord(q, at) ==
    [token |-> q.newTok, createdAt |-> at, expiresAt |-> q.exp,
     deviceInfo |-> IF q.dev = "" THEN "Unknown device" ELSE q.dev]

\* findByIdAndUpdate(user._id, { $push: { refreshTokens: ... } }) and return
RefreshPush(r) ==
    /\ Quiet
    /\ req[r].pc = "push"
    /\ refreshTokens' = [refreshTokens EXCEPT ![req[r].user] = Append(@, rotatedRecord(req[r], now))]
    /\ req' = [req EXCEPT ![r].pc = "done", ![r].res = "ok"]
    /\ updatedAt' = touch(req[r].user)
    /\ Record(r)
    /\ UNCHANGED <<now, lastLogin, strategy, secrets, blog, users>>

\* an awaited store update rejects (connectivity): the handler throws, the
\* document is not changed by this call
StoreFail(r) ==
    /\ Quiet
    /\ req[r].pc \in {"pull", "push"}
    /\ req' = [req EXCEPT ![r].pc = "done", ![r].res = "error"]
    /\ UNCHANGED <<now, refreshTokens, lastLogin, updatedAt, strategy, secrets, blog, users, hist>>

\* ---------------------------------------------------------------- logout
\* the cookies setAuthCookies sets
AuthCookies == {"access_token", "refresh_token"}

\* clearAuthCookies(res)
clearAuthCookies == {"access_token", "refresh_token"}

\* variant of logoutCallsService that calls the service whatever it found
logoutCallsServiceAlways(t) == TRUE

\* if (!refreshToken) { clear cookies; return } : the service is not called
logoutCallsService(t) == t # NoToken

logoutMessage(t) ==
    IF t = NoToken THEN "Logged out successfully (no token found)"
    ELSE "Logged out successfully"

\* POST /auth/logout of an authenticated user u whose request carries the
\* token string t as refresh token (NoToken: neither cookie nor header), and
\* AuthService.logout(userId, refreshToken)
Logout(r, u, t) ==
    LET \* req.cookies?.['refresh_token'] || req.get('authorization')?.replace(...):
        \* NoToken stands for a cookie or header that is absent or empty
        logoutToken(cookie, header) == IF cookie # NoToken THEN cookie ELSE header
    IN
    /\ Quiet
    /\ Free(r)
    /\ u \in users
    /\ Settled(u)
    /\ t \in Presentable(now) \cup {logoutToken(NoToken, NoToken)}
    /\ t = NoToken => AllIdle
    /\ req' = [req EXCEPT ![r] = [IdleReq EXCEPT
                  !.kind = "logout", !.pc = "done", !.user = u, !.tok = t,
                  !.removed = hasToken(refreshTokens[u], t), !.res = "ok",
                  !.body = [message |-> logoutMessage(t)], !.clear = clearAuthCookies]]
    /\ IF logoutCallsService(t)
       THEN /\ refreshTokens' = [refreshTokens EXCEPT ![u] = pullToken(@, t)]
            /\ updatedAt' = touch(u)
            /\ Record(r)
       ELSE UNCHANGED <<refreshTokens, updatedAt, hist>>
    /\ UNCHANGED <<now, lastLogin, strategy, secrets, blog, users>>

\* POST /auth/logout arrives with the cookies ac (access_token), rc
\* (refresh_token) and the Authorization header h.  JwtAuthGuard extracts the
\* access token from ac, else from h, and JwtStrategy verifies it; the handler
\* takes the token to remove from rc, else from h.  A client sends the
\* access token in one place, the cookie or the header
LogoutRequest(r, ac, rc, h) ==
    LET \* the cookies of a request with the access_token cookie ac0 and the
        \* refresh_token cookie rc0
        cookiesSent(ac0, rc0) ==
            {n \in AuthCookies : (n = "access_token" /\ ac0 # Absent) \/ (n = "refresh_token" /\ rc0 # Absent)}
    IN
    /\ Quiet
    /\ Free(r)
    /\ ac # Absent => h = Absent
    /\ LET a == fromExtractors(ac, h)
           l == cookieOrHeader(rc, h)
           u == a[2].sub
           q == [IdleReq EXCEPT !.kind = "logout", !.pc = "done", !.sent = cookiesSent(ac, rc)]
       IN IF Falsy(a) \/ ~verifyAccess(a[2], now)
          THEN /\ AllIdle
               /\ req' = [req EXCEPT ![r] = [q EXCEPT !.res = "unauthorized",
                                                      !.body = [statusCode |-> 401, message |-> "Unauthorized"]]]
               /\ UNCHANGED <<refreshTokens, updatedAt, hist>>
          ELSE /\ Settled(u)
               /\ Falsy(l) => AllIdle
               /\ req' = [req EXCEPT ![r] = [q EXCEPT
                             !.user = u, !.access = a[2], !.tok = l[2], !.lookup = l,
                             !.removed = l[1] = "" /\ hasToken(refreshTokens[u], l[2]),
                             !.res = "ok",
                             !.body = [message |-> logoutMessage(IF Falsy(l) THEN NoToken ELSE l[2])],
                             !.clear = clearAuthCookies]]
               /\ IF Falsy(l) THEN UNCHANGED <<refreshTokens, updatedAt, hist>>
                  ELSE /\ refreshTokens' = [refreshTokens EXCEPT
                                              ![u] = IF l[1] = "" THEN pullToken(@, l[2]) ELSE @]
                       /\ updatedAt' = touch(u)
                       /\ Record(r)
    /\ UNCHANGED <<now, lastLogin, strategy, secrets, blog, users>>

\* AuthService.logoutAllDevices(userId).  Under HistMarks a refresh of u that
\* has passed the guard and made none of its store updates yet is marked
\* (cleared): the mark is history, the refresh does not read it
LogoutAllDevices(r, u) ==
    /\ Quiet
    /\ Free(r)
    /\ u \in users
    /\ Settled(u)
    /\ refreshTokens' = [refreshTokens EXCEPT ![u] = <<>>]
    /\ req' = [q \in Req |->
                 IF q = r
                 THEN [IdleReq EXCEPT
                         !.kind = "logoutAll", !.pc = "done", !.user = u, !.res = "ok",
                         !.body = [message |-> "Logged out from all devices successfully"],
                         !.clear = clearAuthCookies]
                 ELSE IF hist = HistMarks /\ req[q].pc = "pull" /\ req[q].user = u
                 THEN [req[q] EXCEPT !.cleared = TRUE]
                 ELSE req[q]]
    /\ updatedAt' = touch(u)
    /\ Record(r)
    /\ UNCHANGED <<now, lastLogin, strategy, secrets, blog, users>>

\* ----------------------------------------------------------------- sweep
\* variant of sweepOutcome in which the scheduled task lets the failure out
sweepOutcomeRethrow(k, failed) ==
    IF failed THEN [res |-> "error", body |-> [message |-> "Internal server error"]]
    ELSE IF k = "sweep" THEN [res |-> "ok", body |-> [message |-> "Expired tokens cleaned successfully"]]
    ELSE [res |-> "ok", body |-> [message |-> "Cleaned up expired refresh tokens"]]

\* how a sweep ends.  k = "sweep": the admin route returns what
\* cleanExpiredTokens returns, or answers 500 to its exception; k = "cron":
\* cleanupExpiredTokens returns normally either way, body is its log line
sweepOutcome(k, failed) ==
    IF failed /\ k = "sweep" THEN [res |-> "error", body |-> [message |-> "Internal server error"]]
    ELSE IF failed THEN [res |-> "ok", body |-> [message |-> "Failed to cleanup expired tokens"]]
    ELSE IF k = "sweep" THEN [res |-> "ok", body |-> [message |-> "Expired tokens cleaned successfully"]]
    ELSE [res |-> "ok", body |-> [message |-> "Cleaned up expired refresh tokens"]]

\* RolesGuard.canActivate for a route annotated @Roles(required), with the
\* user JwtStrategy.validate read from the store
rolesGuard(u, required) == role[u] \in required

\* variant of sweepGuards without the roles guard
sweepGuardsJwtOnly(a) ==
    IF ~verifyAccess(a, now) THEN "unauthorized" ELSE "pass"

\* @Roles(UserRole.ADMIN) @UseGuards(JwtAuthGuard, RolesGuard) for a request
\* that presents the token string a as access token
sweepGuards(a) ==
    IF ~verifyAccess(a, now) THEN "unauthorized"
    ELSE IF ~rolesGuard(a.sub, {"admin"}) THEN "forbidden"
    ELSE "pass"

\* who calls cleanExpiredTokens: the scheduled task (NoToken), or the admin
\* route for the request that presents the access token a
Callers == {NoToken} \cup {a \in Presentable(now) : sweepGuards(a) = "pass"}

\* the call returns to its caller a
finished(q, a, failed) ==
    LET kindOf(a0) == IF a0 = NoToken THEN "cron" ELSE "sweep"
    IN
    [q EXCEPT !.kind = kindOf(a), !.user = a.sub, !.access = a,
              !.pc = "done", !.todo = {},
              !.res = sweepOutcome(kindOf(a), failed).res,
              !.body = sweepOutcome(kindOf(a), failed).body]

firstOf(todo) ==
    LET \* the documents are updated in the order of the collection
        Collection == <<"u1", "u2">>
    IN
    Collection[CHOOSE i \in 1..Len(Collection) :
                 /\ Collection[i] \in todo
                 /\ \A j \in 1..(i - 1) : Collection[j] \notin todo]

\* the store applies { $pull: { refreshTokens: { expiresAt: { $lt: cutoff } } } }
\* to the document of u, atomically for that document; the call returns after
\* the last document
updateDoc(r, k, q, u) ==
    /\ refreshTokens' = [refreshTokens EXCEPT ![u] = pullExpired(@, q.exp)]
    /\ updatedAt' = touch(u)
    /\ LET q2 == [q EXCEPT !.todo = @ \ {u},
                           !.removed = @ \/ pullExpired(refreshTokens[u], q.exp) # refreshTokens[u]]
       IN req' = [req EXCEPT ![r] = IF q2.todo = {} THEN finished(q2, k, FALSE) ELSE q2]
    /\ Record(r)

\* AuthService.cleanExpiredTokens is called, by the admin route (k = "sweep")
\* or by the scheduled task (k = NoToken): it reads new Date() and issues
\* updateMany({}, { $pull: ... }), which matches every user document.  No
\* other operation can tell the reading of the clock from the update of the
\* first document, so the two are one step.  The call runs the same for both
\* callers: which one it is shows when it returns
CleanExpiredTokens(r, k) ==
    /\ Quiet
    /\ Free(r)
    /\ LET q == [IdleReq EXCEPT !.kind = "sweep", !.pc = "sweep", !.exp = now, !.todo = users]
       IN IF users = {}
          THEN /\ req' = [req EXCEPT ![r] = finished(q, k, FALSE)]
               /\ UNCHANGED <<refreshTokens, updatedAt, hist>>
          ELSE updateDoc(r, k, q, firstOf(users))
    /\ UNCHANGED <<now, lastLogin, strategy, secrets, blog, users>>

\* the update reaches the next document
UpdateManyDoc(r, k) ==
    /\ Quiet
    /\ req[r].pc = "sweep"
    /\ updateDoc(r, k, req[r], firstOf(req[r].todo))
    /\ UNCHANGED <<now, lastLogin, strategy, secrets, blog, users>>

\* updateMany rejects, before the first document or between two: the
\* documents already updated stay updated
UpdateManyFail(r, k) ==
    /\ Quiet
    /\ \/ AllIdle /\ Free(r)
       \/ req[r].pc = "sweep"
    /\ req' = [req EXCEPT ![r] =
                  finished(IF Free(r) THEN [IdleReq EXCEPT !.exp = now] ELSE @, k, TRUE)]
    /\ UNCHANGED <<now, refreshTokens, lastLogin, updatedAt, strategy, secrets, blog, users, hist>>

\* POST /auth/admin/clean-expired-tokens by a caller the guards turn away:
\* the handler is not reached
SweepDenied(r, a) ==
    /\ AllIdle
    /\ Free(r)
    /\ sweepGuards(a) # "pass"
    /\ req' = [req EXCEPT ![r] = [IdleReq EXCEPT
                  !.kind = "sweep", !.pc = "done", !.access = a, !.user = a.sub,
                  !.res = sweepGuards(a),
                  !.body = [message |-> IF sweepGuards(a) = "forbidden"
                                        THEN "Forbidden resource" ELSE "Unauthorized"]]]
    /\ UNCHANGED <<now, refreshTokens, lastLogin, updatedAt, strategy, secrets, blog, users, hist>>

\* ------------------------------------------------------------------ next
\* Where the tokens a request may carry are enumerated, the guard the action
\* starts with (Quiet, AllIdle) is tested first
Next ==
    \/ Tick
    \/ \E r \in Req : Reset(r)
    \/ \E r \in Req, e \in Emails, p \in Passwords : LoginRejected(r, e, p)
    \/ \E r \in Req, u \in Users, d \in DeviceInputs : Login(r, u, d)
    \/ Quiet /\ \E r \in Req, t \in Presentable(now) : Validate(r, t)
    \/ \E r \in Req : ValidateExpiry(r)
    \/ \E r \in Req : RefreshPull(r)
    \/ \E r \in Req : RefreshPush(r)
    \/ \E r \in Req : StoreFail(r)
    \/ Quiet /\ \E r \in Req, u \in Users, t \in Presentable(now) \cup {NoToken} : Logout(r, u, t)
    \/ \E r \in Req, u \in Users : LogoutAllDevices(r, u)
    \/ Quiet /\ \E r \in Req, k \in Callers : CleanExpiredTokens(r, k)
    \/ Quiet /\ \E r \in Req, k \in Callers : UpdateManyDoc(r, k)
    \/ Quiet /\ \E r \in Req, k \in Callers : UpdateManyFail(r, k)
    \/ AllIdle /\ \E r \in Req, a \in Presentable(now) : SweepDenied(r, a)
    \/ \E r \in Req, u \in Users : GetProfile(r, u)
    \/ \E r \in Req, u \in Users : GetCurrentUser(r, u)

Spec == Init /\ [][Next]_vars

SpecH == InitH /\ [][Next]_vars

SpecC == InitC /\ [][Next]_vars

SpecM == InitM /\ [][Next]_vars

\* the program with the refresh requests in every form of cookie and header
NextX ==
    \/ Tick
    \/ \E r \in Req : Reset(r)
    \/ \E r \in Req, u \in Users : Login(r, u, "")
    \/ Quiet /\ \E r \in Req, c \in CookieInputs(now), h \in HeaderInputs(now) : RefreshRequest(r, c, h)
    \/ \E r \in Req : ValidateExpiry(r)
    \/ \E r \in Req : RefreshPull(r)
    \/ \E r \in Req : RefreshPush(r)

SpecX == Init /\ [][NextX]_vars

\* the program with the logout requests of cookie clients and header clients
NextO ==
    \/ Tick
    \/ \E r \in Req : Reset(r)
    \/ \E r \in Req, u \in Users, d \in DeviceInputs : Login(r, u, d)
    \/ Quiet /\ \E r \in Req, t \in Presentable(now) : Validate(r, t)
    \/ \E r \in Req : ValidateExpiry(r)
    \/ \E r \in Req : RefreshPull(r)
    \/ \E r \in Req : RefreshPush(r)
    \* the cookies setAuthCookies has set and the browser still sends, and the
    \* headers a client builds from the tokens of a response body
    \/ Quiet /\ \E r \in Req,
                     ac \in {Absent} \cup {Str(x) : x \in {y \in Presentable(now) : y.key = signKey("access")}},
                     rc \in {Absent} \cup {Str(x) : x \in {y \in Presentable(now) : y.key = signKey("refresh")}},
                     h \in {Absent} \cup {<<"Bearer", x>> : x \in Presentable(now)} :
                  LogoutRequest(r, ac, rc, h)

SpecO == Init /\ [][NextO]_vars

\* DELETE /users/:id (admin): the document of u is removed.  Explored between
\* requests; the fields of a removed document read as those of none
DeleteUser(u) ==
    /\ \A r \in Req : req[r].pc = "idle"
    /\ u \in users
    /\ users' = users \ {u}
    /\ refreshTokens' = [refreshTokens EXCEPT ![u] = <<>>]
    /\ lastLogin' = [lastLogin EXCEPT ![u] = -1]
    /\ updatedAt' = [updatedAt EXCEPT ![u] = -1]
    /\ UNCHANGED <<now, strategy, secrets, blog, req, hist>>

NextD ==
    \/ Next
    \/ \E u \in Users : DeleteUser(u)
    \/ \E r \in Req, e \in Users : Register(r, e)

\* the program together with the registration and the deletion of users
SpecD == Init /\ [][NextD]_vars

\* ------------------------------------------------------ scheduled sweeps
\* the program with the scheduled task as the only caller of the sweep, and
\* logins and refreshes as the requests that store records
InitL ==
    /\ now = 0
    /\ refreshTokens = [u \in Users |-> <<>>]
    /\ lastLogin = [u \in Users |-> -1]
    /\ updatedAt = [u \in Users |-> -1]
    /\ users = Users
    /\ strategy = 2
    /\ secrets = Configured
    /\ req = [r \in Req |-> IdleReq]
    /\ hist = HistOff
    /\ InitBlog

NextL ==
    \/ Tick
    \/ \E r \in Req : Reset(r)
    \/ \E r \in Req, u \in Users : Login(r, u, "")
    \/ Quiet /\ \E r \in Req, t \in Presentable(now) : Validate(r, t)
    \/ \E r \in Req : RefreshPull(r)
    \/ \E r \in Req : RefreshPush(r)
    \/ \E r \in Req : CleanExpiredTokens(r, NoToken)
    \/ \E r \in Req : UpdateManyDoc(r, NoToken)
    \/ \E r \in Req : UpdateManyFail(r, NoToken)

\* every response is delivered and every awaited store update of a refresh
\* returns; @Cron(EVERY_DAY_AT_2AM) starts a run again and again whatever the
\* requests do, and a run that is tried again and again gets through
FairL ==
    /\ WF_vars(\E r \in Req : Reset(r))
    /\ WF_vars(\E r \in Req : RefreshPull(r) \/ RefreshPush(r))
    /\ SF_vars(\E r \in Req : CleanExpiredTokens(r, NoToken))
    /\ SF_vars(\E r \in Req : UpdateManyDoc(r, NoToken))

SpecL == InitL /\ [][NextL]_vars /\ FairL

\* ---------------------------------------------------- expiration formats

IsDigit(c) == c \in {"0", "1", "2", "3", "4", "5", "6", "7", "8", "9"}

\* parseInt(str, 10): the leading digits, NaN when there is none
parseInt(str) ==
    LET NaN == -1
        digitOf(c) ==
            CASE c = "0" -> 0 [] c = "1" -> 1 [] c = "2" -> 2 [] c = "3" -> 3
              [] c = "4" -> 4 [] c = "5" -> 5 [] c = "6" -> 6 [] c = "7" -> 7
              [] c = "8" -> 8 [] c = "9" -> 9
        RECURSIVE digits(_, _)
        digits(rest, acc) ==
            IF rest = <<>> \/ ~IsDigit(Head(rest)) THEN acc
            ELSE digits(Tail(rest), 10 * acc + digitOf(Head(rest)))
    IN IF str = <<>> \/ ~IsDigit(Head(str)) THEN NaN ELSE digits(str, 0)

\* what jwtService.sign makes of expiresIn, in milliseconds: the number
\* times its unit, a number without unit being milliseconds
ms(str) ==
    LET unit == str[Len(str)]
        value == parseInt(str)
    IN  CASE unit = "d" -> value * 24 * 60 * 60 * 1000
          [] unit = "h" -> value * 60 * 60 * 1000
          [] unit = "m" -> value * 60 * 1000
          [] unit = "s" -> value * 1000
          [] OTHER -> value

\* the record login and refresh append at second t
issuedRecord(u, t, d) ==
    LET \* jwtService.sign(payload, {secret: JWT_REFRESH_SECRET, expiresIn}) at t0
        signRefresh(u0, t0) ==
                \* the exp claim jwtService.sign writes: floor(iat + ms(expiresIn) / 1000)
            LET timespan(expiresIn, iat) == iat + (ms(expiresIn) \div 1000)
            IN
            [sub |-> u0, key |-> signKey("refresh"), iat |-> t0,
             exp |-> timespan(secrets.expiration, t0)]
        \* AuthService.calculateExpirationDate(expiresIn) called at second t0:
        \* unit = expiresIn.slice(-1), value = parseInt(expiresIn.slice(0, -1), 10)
        calculateExpirationDateFrom(expiresIn, t0) ==
            LET unit == expiresIn[Len(expiresIn)]
                value == parseInt(SubSeq(expiresIn, 1, Len(expiresIn) - 1))
            IN  CASE unit = "d" -> t0 + value * 24 * 60 * 60
                  [] unit = "h" -> t0 + value * 60 * 60
                  [] unit = "m" -> t0 + value * 60
                  [] OTHER -> t0 + 7 * 24 * 60 * 60
    IN
    [token |-> signRefresh(u, t), createdAt |-> t,
     expiresAt |-> calculateExpirationDateFrom(secrets.expiration, t),
     deviceInfo |-> d]

InitT ==
    LET Formats ==
            LET Units == {<<"d">>, <<"h">>, <<"m">>, <<"s">>, <<>>}
            IN
                \* JWT_REFRESH_EXPIRATION as the string it is, a sequence of characters, the
                \* clock in seconds.  Formats: the strings jwtService.sign accepts as
                \* expiresIn that are a number followed by d, h, m, s or nothing
            LET Numbers == {<<"1">>, <<"7">>, <<"1", "5">>}
            IN
                   {n \o x : n \in Numbers, x \in Units} \cup {<<"3", "0", "0", "0">>}
    IN
    /\ now = 0
    /\ refreshTokens = [u \in Users |-> <<>>]
    /\ lastLogin = [u \in Users |-> -1]
    /\ updatedAt = [u \in Users |-> -1]
    /\ users = Users
    /\ strategy \in {1, 2}
    /\ secrets \in {[access |-> "A", refresh |-> "R", expiration |-> e] : e \in Formats}
    /\ req = [r \in Req |-> IdleReq]
    /\ hist = HistOff
    /\ InitBlog

\* AuthService.login, the response left aside
IssueLogin(u) ==
    /\ u \in users
    /\ Room
    /\ refreshTokens' = [refreshTokens EXCEPT
                           ![u] = Append(@, issuedRecord(u, now, "Unknown Device"))]
    /\ lastLogin' = [lastLogin EXCEPT ![u] = now]
    /\ updatedAt' = touch(u)
    /\ UNCHANGED <<now, strategy, secrets, blog, users, req, hist>>

\* AuthService.refreshTokens for the i-th record of u, its token passing
\* the guard, the response left aside
IssueRefresh(u, i) ==
    /\ u \in users
    /\ i \in 1..Len(refreshTokens[u])
    /\ verifyRefresh(refreshTokens[u][i].token, now)
    /\ now <= refreshTokens[u][i].expiresAt
    /\ refreshTokens' = [refreshTokens EXCEPT
                           ![u] = Append(pullToken(@, refreshTokens[u][i].token),
                                         issuedRecord(u, now, refreshTokens[u][i].deviceInfo))]
    /\ updatedAt' = touch(u)
    /\ UNCHANGED <<now, lastLogin, strategy, secrets, blog, users, req, hist>>

NextT ==
    \/ Tick
    \/ \E u \in Users : IssueLogin(u)
    \/ \E u \in Users, i \in 1..MaxRecs : IssueRefresh(u, i)

SpecT == InitT /\ [][NextT]_vars

\* -------------------------------------------------- posts and categories
\* A call of PostsService / CategoriesService is a process in a slot of
\* calls; one step is one awaited store operation together with the
\* synchronous code around it.  Inside a transaction the writes made with
\* { session } are pending until commitTransaction and are dropped by
\* abortTransaction; MongoDB gives the transaction snapshot isolation: a
\* write to a document that another transaction has written, or that was
\* written by anyone after the snapshot was taken, fails with a write
\* conflict, and a write outside a transaction waits for the transaction
\* holding the document.

\* one store write: the operation, the post it is about, the user or the
\* categories it addresses, the document or the fields it carries
W(op, p, u, cs, d) == [op |-> op, post |-> p, user |-> u, cats |-> cs, doc |-> d]

includes(arr, x) == x \in Range(arr)
pull(arr, x) == SelectSeq(arr, LAMBDA e : e # x)

\* the documents a write addresses
touches(w) ==
    IF w.op \in {"save", "updatePost", "deletePost", "incViewCount", "pullPostCategories"}
    THEN {<<"post", w.post>>}
    ELSE IF w.op \in {"pushUserPosts", "pullUserPosts", "addToSetUserPosts"}
    THEN {<<"user", w.user>>}
    ELSE {<<"category", c>> : c \in Range(w.cats)}

\* the store after one write
apply(S, w) ==
    LET \* findByIdAndUpdate(id, dataToUpdate): the fields of dataToUpdate that
        \* are present replace those of the document
        assign(doc, data) ==
            [doc EXCEPT !.title = IF data.title # "" THEN data.title ELSE @,
                        !.categories = IF data.categoryIds # NoIds THEN data.categoryIds ELSE @,
                        !.authorId = IF data.authorId # "" THEN data.authorId ELSE @]
        addToSet(arr, x) == IF includes(arr, x) THEN arr ELSE Append(arr, x)
        push(arr, x) == Append(arr, x)
        \* updateMany({ _id: { $in: w.cats } }, ...): every category of w.cats
        \* that exists gets its posts array rewritten
        onCategories(f(_)) ==
            [c \in CatIds |-> IF includes(w.cats, c) /\ liveCategory(S, c)
                              THEN [S.categories[c] EXCEPT !.posts = f(@)]
                              ELSE S.categories[c]]
    IN
    CASE w.op = "save" -> [S EXCEPT !.posts[w.post] = w.doc]
      [] w.op = "updatePost" ->
            IF livePost(S, w.post)
            THEN [S EXCEPT !.posts[w.post] = assign(@, w.doc)] ELSE S
      [] w.op = "deletePost" ->
            [S EXCEPT !.posts[w.post] = [NoPost EXCEPT !.state = "deleted"]]
      [] w.op = "pushUserPosts" ->
            IF w.user \in users
            THEN [S EXCEPT !.userPosts[w.user] = push(@, w.post)] ELSE S
      [] w.op = "pullUserPosts" ->
            IF w.user \in users
            THEN [S EXCEPT !.userPosts[w.user] = pull(@, w.post)] ELSE S
      [] w.op = "addToSetUserPosts" ->
            IF w.user \in users
            THEN [S EXCEPT !.userPosts[w.user] = addToSet(@, w.post)] ELSE S
      [] w.op = "pushCategoryPosts" ->
            [S EXCEPT !.categories = onCategories(LAMBDA a : push(a, w.post))]
      [] w.op = "pullCategoryPosts" ->
            [S EXCEPT !.categories = onCategories(LAMBDA a : pull(a, w.post))]

touched(ws) == UNION {touches(ws[i]) : i \in 1..Len(ws)}

\* variant: the author's $push of create is made without the session
inSessionButAuthorPush(w) == w.op # "pushUserPosts"

\* every write of a transaction carries { session }
inSession(w) == TRUE

\* the documents written by the open transactions of the other calls
locked(k) == UNION {touched(calls[j].pending) : j \in Call \ {k}}

\* a call starts in the first slot that is not in use
Ready(k) == calls[k].pc = "idle" /\ \A j \in Call : j < k => calls[j].pc # "idle"
Alone(k) == \A j \in Call \ {k} : calls[j].pc = "idle"

\* the slot of a call of that kind that returned (res = "ok") or threw
\* res, having opened the session s or none
done(kind, res, s) ==
    LET \* finally { session.endSession() }
        endSession(s0) == IF s0 = "open" THEN "ended" ELSE s0
    IN
    [IdleCall EXCEPT !.kind = kind, !.res = res, !.session = endSession(s)]

finish(k, res) == done(calls[k].kind, res, calls[k].session)

\* a write that became visible: the transactions of the others that hold a
\* snapshot can no longer write the documents D
seenBy(k, D) ==
    LET \* the transaction of call j has taken its snapshot (its first operation ran)
        inTransaction(j) == calls[j].pc = "txn" /\ calls[j].pending # <<>>
    IN
    [j \in Call |-> IF j # k /\ inTransaction(j)
                    THEN [calls[j] EXCEPT !.dirty = @ \cup D] ELSE calls[j]]

setStore(S) ==
    /\ posts' = S.posts
    /\ categories' = S.categories
    /\ userPosts' = S.userPosts

\* new this.postModel(...) / new this.categoryModel(...): a new ObjectId
unusedPost(p) ==
    posts[p].state = "none" /\ \A j \in Call : calls[j].kind = "create" => calls[j].post # p

\* categoryModel.find({ _id: { $in: ids } })
findCategories(ids) == {c \in Range(ids) : liveCategory(store, c)}

\* the slots once call k has reached rec; of the calls that are over, only
\* the latest keeps its response
put(cs, k, rec) ==
    [j \in Call |-> IF j = k THEN rec
                    ELSE IF rec.pc = "idle" /\ cs[j].pc = "idle" THEN IdleCall
                    ELSE cs[j]]

returns(k, rec) ==
    /\ calls' = put(calls, k, rec)
    /\ UNCHANGED <<posts, categories, userPosts, auth>>

CreatePost(k, u, t, ids) ==
    LET \* PostsService.create up to startTransaction: the dto carries the title t0,
        \* the author u0 and the category ids0
        create(k0, u0, t0, ids0) ==
            LET newPostId == CHOOSE p \in PostIds : unusedPost(p) /\ \A q \in PostIds : unusedPost(q) => p <= q
            IN
            LET p == newPostId
                doc == [state |-> "live", title |-> t0, authorId |-> u0,
                        categories |-> ids0, viewCount |-> 0]
            IN  IF ids0 = <<>> \/ u0 \notin users \/ Cardinality(findCategories(ids0)) # Len(ids0)
                THEN Alone(k0) /\ returns(k0, done("create", "BadRequest", "none"))
                ELSE returns(k0, [IdleCall EXCEPT
                         !.kind = "create", !.pc = "txn", !.user = u0, !.post = p,
                         !.dto = [title |-> t0, categoryIds |-> ids0, authorId |-> u0],
                         !.session = "open",
                         !.todo = <<W("save", p, u0, <<>>, doc),
                                    W("pushUserPosts", p, u0, <<>>, NoPost),
                                    W("pushCategoryPosts", p, "", ids0, NoPost)>>])
    IN
    /\ Ready(k)
    /\ \E p \in PostIds : unusedPost(p)
    /\ create(k, u, t, ids)

\* PostsService.update from "Check for actual changes" to startTransaction:
\* the checks that follow the reads, then the writes of the transaction in
\* the order of the code
checked(kind, p, dto, e, currentUserId) ==
    LET hasAnyFieldProvided ==
            dto.title # "" \/ dto.categoryIds # NoIds \/ dto.authorId # ""
        hasDataChanges == dto.title # "" /\ dto.title # e.title
        hasCategoryChanges ==
            /\ dto.categoryIds # NoIds
            /\ \/ Len(dto.categoryIds) # Len(e.categories)
               \/ \E i \in 1..Len(dto.categoryIds) :
                      ~includes(e.categories, dto.categoryIds[i])
        hasAuthorChange == dto.authorId # "" /\ dto.authorId # e.authorId
        categoriesToRemove ==
            SelectSeq(e.categories, LAMBDA c : ~includes(dto.categoryIds, c))
        categoriesToActuallyAdd ==
            SelectSeq(dto.categoryIds, LAMBDA c : ~includes(e.categories, c))
        updateWrites ==
            (IF hasAuthorChange
             THEN <<W("pullUserPosts", p, e.authorId, <<>>, NoPost),
                    W("addToSetUserPosts", p, dto.authorId, <<>>, NoPost)>>
             ELSE <<>>)
            \o (IF hasCategoryChanges /\ categoriesToRemove # <<>>
                THEN <<W("pullCategoryPosts", p, "", categoriesToRemove, NoPost)>>
                ELSE <<>>)
            \o (IF hasCategoryChanges /\ categoriesToActuallyAdd # <<>>
                THEN <<W("pushCategoryPosts", p, "", categoriesToActuallyAdd, NoPost)>>
                ELSE <<>>)
            \o <<W("updatePost", p, "", <<>>,
                   [title |-> dto.title,
                    categoryIds |-> IF hasCategoryChanges THEN dto.categoryIds ELSE NoIds,
                    authorId |-> IF hasAuthorChange THEN dto.authorId ELSE ""])>>
    IN  IF ~hasAnyFieldProvided THEN done(kind, "BadRequest", "none")
        ELSE IF ~hasDataChanges /\ ~hasCategoryChanges /\ ~hasAuthorChange
        THEN done(kind, "Conflict", "none")
        ELSE [IdleCall EXCEPT !.kind = kind, !.pc = "txn", !.session = "open", !.post = p,
                              !.user = currentUserId, !.todo = updateWrites]

\* PostsService.update(id, updatePostDto, currentUserId, userRole) up to the
\* validation of the category ids
update(k, kind, p, dto, currentUserId, userRole) ==
    LET e == posts[p]
        isAdmin == userRole = "admin"
        isAuthor == e.authorId = currentUserId
        thrown(res) == Alone(k) /\ returns(k, done(kind, res, "none"))
    IN  IF e.state # "live" THEN thrown("NotFound")
        ELSE IF currentUserId = undefined THEN thrown("TypeError")
        ELSE IF ~isAdmin /\ ~isAuthor THEN thrown("Forbidden")
        ELSE IF dto.authorId # "" /\ dto.authorId # e.authorId /\ ~isAdmin
        THEN thrown("Forbidden")
        ELSE IF dto.authorId # "" /\ dto.authorId # e.authorId /\ dto.authorId \notin users
        THEN thrown("NotFound")
        ELSE IF dto.categoryIds = <<>> THEN thrown("BadRequest")
        ELSE IF dto.categoryIds # NoIds
        THEN returns(k, [IdleCall EXCEPT !.kind = kind, !.pc = "categories", !.post = p,
                                         !.dto = dto, !.seen = e, !.user = currentUserId])
        ELSE LET r == checked(kind, p, dto, e, currentUserId)
             IN  /\ r.pc = "idle" => Alone(k)
                 /\ returns(k, r)

UpdatePost(k, p, dto, currentUserId) ==
    /\ Ready(k)
    /\ update(k, "update", p, dto, currentUserId, role[currentUserId])

\* "Verify that all categories exist" of update
UpdateCategories(k) ==
    /\ calls[k].pc = "categories"
    /\ LET c == calls[k]
       IN  IF Cardinality(findCategories(c.dto.categoryIds)) # Len(c.dto.categoryIds)
           THEN returns(k, finish(k, "BadRequest"))
           ELSE returns(k, checked(c.kind, c.post, c.dto, c.seen, c.user))

\* PostsService.remove(id, currentUserId, userRole) up to startTransaction
remove(k, kind, p, currentUserId, userRole) ==
    LET e == posts[p]
        isAdmin == userRole = "admin"
        isAuthor == e.authorId = currentUserId
        thrown(res) == Alone(k) /\ returns(k, done(kind, res, "none"))
    IN  IF e.state # "live" THEN thrown("NotFound")
        ELSE IF currentUserId = undefined THEN thrown("TypeError")
        ELSE IF ~isAdmin /\ ~isAuthor THEN thrown("Forbidden")
        ELSE returns(k, [IdleCall EXCEPT !.kind = kind, !.pc = "txn", !.session = "open",
                                         !.post = p, !.user = currentUserId,
                                         !.todo = <<W("deletePost", p, "", <<>>, NoPost)>>])

RemovePost(k, p, currentUserId) ==
    /\ Ready(k)
    /\ remove(k, "remove", p, currentUserId, role[currentUserId])

\* the next operation of the transaction of call k
TxnWrite(k) ==
    LET \* the writes that follow findByIdAndDelete in remove, from the deleted
        \* document it returned
        afterDelete(p, deleted) ==
            <<W("pullUserPosts", p, deleted.authorId, <<>>, NoPost),
              W("pullCategoryPosts", p, "", deleted.categories, NoPost)>>
        \* the arrays a write appends to stay within MaxRefs entries
        RoomFor(w) ==
            /\ w.op \in {"pushUserPosts", "addToSetUserPosts"} =>
                   (w.user \in users => Len(userPosts[w.user]) < MaxRefs)
            /\ w.op = "pushCategoryPosts" =>
                   \A c \in Range(w.cats) : Len(categories[c].posts) < MaxRefs
    IN
    /\ calls[k].pc = "txn"
    /\ calls[k].todo # <<>>
    /\ LET c == calls[k]
           w == Head(c.todo)
           rest == IF w.op = "deletePost" THEN afterDelete(w.post, posts[w.post])
                   ELSE Tail(c.todo)
       IN  /\ RoomFor(w)
           /\ IF touches(w) \cap (c.dirty \cup locked(k)) # {}
              THEN returns(k, finish(k, "WriteConflict"))
              ELSE IF w.op = "deletePost" /\ ~livePost(store, w.post)
              THEN returns(k, finish(k, "NotFound"))
              ELSE IF inSession(w)
              THEN returns(k, [c EXCEPT !.pending = Append(@, w), !.todo = rest])
              ELSE /\ setStore(apply(store, w))
                   /\ calls' = put(seenBy(k, touches(w)), k, [c EXCEPT !.todo = rest])
                   /\ UNCHANGED auth

\* an operation of the transaction (or commitTransaction) throws:
\* catch { abortTransaction(); throw error } finally { endSession() }
TxnFail(k) ==
    /\ calls[k].pc = "txn"
    /\ returns(k, finish(k, "error"))

\* commitTransaction: the pending writes become visible together; update
\* and remove return, create goes on to populate
Commit(k) ==
    /\ calls[k].pc = "txn"
    /\ calls[k].todo = <<>>
    /\ LET c == calls[k]
           RECURSIVE applyAll(_, _)
           applyAll(S, ws) ==
               IF ws = <<>> THEN S ELSE applyAll(apply(S, Head(ws)), Tail(ws))
       IN  /\ setStore(applyAll(store, c.pending))
           /\ calls' = put(seenBy(k, touched(c.pending)), k,
                           IF c.kind = "create"
                           THEN [c EXCEPT !.pc = "committed", !.pending = <<>>, !.dirty = {}]
                           ELSE finish(k, "ok"))
           /\ UNCHANGED auth

\* post.populate(...) resolves and create returns the post
Return(k) ==
    /\ calls[k].pc = "committed"
    /\ returns(k, finish(k, "ok"))

\* post.populate(...) throws: the catch block calls abortTransaction on the
\* committed transaction, which throws in its turn
ReturnFail(k) ==
    /\ calls[k].pc = "committed"
    /\ returns(k, finish(k, "error"))

\* catch (error) { throw new InternalServerErrorException(...) } of
\* CategoriesService.create: whatever was thrown inside the try block
createCaught(error) == "InternalServerError"

\* CategoriesService.create up to save: findOne({ name })
CreateCategory(k, name) ==
    LET unusedCategory(c) ==
            categories[c].state = "none" /\ \A j \in Call : calls[j].kind = "createCategory" => calls[j].cat # c
        newCategoryId ==
            CHOOSE c \in CatIds : unusedCategory(c) /\ \A d \in CatIds : unusedCategory(d) => c <= d
    IN
    /\ Ready(k)
    /\ \E c \in CatIds : unusedCategory(c)
    /\ IF \E c \in CatIds : liveCategory(store, c) /\ categories[c].name = name
       THEN Alone(k) /\ returns(k, done("createCategory", createCaught("Conflict"), "none"))
       ELSE returns(k, [IdleCall EXCEPT !.kind = "createCategory", !.pc = "save",
                                        !.cat = newCategoryId, !.name = name])

\* newCategory.save()
SaveCategory(k) ==
    /\ calls[k].pc = "save"
    /\ categories' = [categories EXCEPT ![calls[k].cat] =
                          [state |-> "live", name |-> calls[k].name, posts |-> <<>>]]
    /\ calls' = put(calls, k, finish(k, "ok"))
    /\ UNCHANGED <<posts, userPosts, auth>>

\* newCategory.save() throws
SaveCategoryFail(k) ==
    /\ calls[k].pc = "save"
    /\ returns(k, finish(k, createCaught("error")))

\* CategoriesService.remove: findById(id)
RemoveCategory(k, c) ==
    /\ Ready(k)
    /\ IF ~liveCategory(store, c)
       THEN Alone(k) /\ returns(k, done("removeCategory", "NotFound", "none"))
       ELSE returns(k, [IdleCall EXCEPT !.kind = "removeCategory", !.pc = "orphans", !.cat = c])

\* postModel.find({ categories: id })
listing(c) == {p \in PostIds : livePost(store, p) /\ includes(posts[p].categories, c)}

\* "Check for posts that would become orphaned"
RemoveCategoryOrphans(k) ==
    /\ calls[k].pc = "orphans"
    /\ IF \E p \in listing(calls[k].cat) : Len(posts[p].categories) = 1
       THEN returns(k, finish(k, "Conflict"))
       ELSE returns(k, [calls[k] EXCEPT !.pc = "pull"])

\* postModel.updateMany({ categories: id }, { $pull: { categories: id } })
RemoveCategoryPull(k) ==
    /\ calls[k].pc = "pull"
    /\ LET c == calls[k].cat
           D == {<<"post", p>> : p \in listing(c)}
       IN  /\ D \cap locked(k) = {}
           /\ posts' = [p \in PostIds |-> IF p \in listing(c)
                                          THEN [posts[p] EXCEPT !.categories = pull(@, c)]
                                          ELSE posts[p]]
           /\ calls' = put(seenBy(k, D), k, [calls[k] EXCEPT !.pc = "delete"])
    /\ UNCHANGED <<categories, userPosts, auth>>

\* categoryModel.findByIdAndDelete(id)
RemoveCategoryDelete(k) ==
    /\ calls[k].pc = "delete"
    /\ LET c == calls[k].cat
       IN  /\ <<"category", c>> \notin locked(k)
           /\ IF liveCategory(store, c)
              THEN /\ categories' = [categories EXCEPT ![c] = [NoCategory EXCEPT !.state = "deleted"]]
                   /\ calls' = put(seenBy(k, {<<"category", c>>}), k, finish(k, "ok"))
              ELSE /\ categories' = categories
                   /\ calls' = put(calls, k, finish(k, "InternalServerError"))
    /\ UNCHANGED <<posts, userPosts, auth>>

\* PostsService.findOne(id): findByIdAndUpdate(id, { $inc: { viewCount: 1 } })
findOne(p) == [posts EXCEPT ![p].viewCount = @ + 1]

\* the ownership check of PostsController.update and remove on the post
\* that findOne returned
permitted(user, post) == role[user] = "admin" \/ post.authorId = user

\* PATCH /posts/:id of the authenticated user, up to the call of the service
PatchPost(k, user, p, dto) ==
    /\ Ready(k)
    /\ Alone(k)
    /\ IF ~livePost(store, p)
       THEN returns(k, done("patch", "NotFound", "none"))
       ELSE /\ posts[p].viewCount < MaxViews
            /\ posts' = findOne(p)
            /\ calls' = put(calls, k,
                   IF permitted(user, posts[p])
                   THEN [IdleCall EXCEPT !.kind = "patch", !.pc = "service", !.user = user,
                                         !.post = p, !.dto = dto]
                   ELSE done("patch", "Forbidden", "none"))
            /\ UNCHANGED <<categories, userPosts, auth>>

\* this.postsService.update(id, updatePostDto): the controller passes
\* neither currentUserId nor userRole
PatchService(k) ==
    /\ calls[k].pc = "service"
    /\ calls[k].kind = "patch"
    /\ update(k, "patch", calls[k].post, calls[k].dto, undefined, undefined)

\* DELETE /posts/:id of the authenticated user, up to the call of the service
DeletePost(k, user, p) ==
    /\ Ready(k)
    /\ Alone(k)
    /\ IF ~livePost(store, p)
       THEN returns(k, done("delete", "NotFound", "none"))
       ELSE /\ posts[p].viewCount < MaxViews
            /\ posts' = findOne(p)
            /\ calls' = put(calls, k,
                   IF permitted(user, posts[p])
                   THEN [IdleCall EXCEPT !.kind = "delete", !.pc = "service", !.user = user,
                                         !.post = p]
                   ELSE done("delete", "Forbidden", "none"))
            /\ UNCHANGED <<categories, userPosts, auth>>

\* this.postsService.remove(id)
DeleteService(k) ==
    /\ calls[k].pc = "service"
    /\ calls[k].kind = "delete"
    /\ remove(k, "delete", calls[k].post, undefined, undefined)

\* the inputs of the calls
CategoryIdInputs == {<<>>, <<1, 1>>} \cup {<<c>> : c \in CatIds} \cup {<<1, c>> : c \in CatIds \ {1}}
UpdateDtos ==
    {[title |-> "b", categoryIds |-> NoIds, authorId |-> ""]}
    \cup [title : {""}, categoryIds : {NoIds} \cup CategoryIdInputs, authorId : {""} \cup Users]

\* the content store starts empty, no call in progress
InitB == Init /\ strategy = 1

\* category removal overlapping with the creation and the update of a
\* post; one post is followed
NextB ==
    \/ \E k \in Call, name \in Names : Alone(k) /\ CreateCategory(k, name)
    \/ \E k \in Call : SaveCategory(k)
    \/ \E k \in Call, u \in Users, ids \in CategoryIdInputs :
           (\A p \in PostIds : unusedPost(p)) /\ CreatePost(k, u, "a", ids)
    \/ \E k \in Call, p \in PostIds, u \in Users,
          dto \in {d \in UpdateDtos : d.title = "" /\ d.authorId = ""} : UpdatePost(k, p, dto, u)
    \/ \E k \in Call : UpdateCategories(k)
    \/ \E k \in Call : TxnWrite(k)
    \/ \E k \in Call : Commit(k)
    \/ \E k \in Call : Return(k)
    \/ \E k \in Call, c \in CatIds : RemoveCategory(k, c)
    \/ \E k \in Call : RemoveCategoryOrphans(k)
    \/ \E k \in Call : RemoveCategoryPull(k)
    \/ \E k \in Call : RemoveCategoryDelete(k)

SpecB == InitB /\ [][NextB]_vars

\* the calls of the two services, one at a time
NextS ==
    \/ \E k \in Call, u \in Users, ids \in CategoryIdInputs :
           Alone(k) /\ CreatePost(k, u, "a", ids)
    \/ \E k \in Call, p \in PostIds, dto \in UpdateDtos, u \in Users :
           Alone(k) /\ UpdatePost(k, p, dto, u)
    \/ \E k \in Call : UpdateCategories(k)
    \/ \E k \in Call, p \in PostIds, u \in Users : Alone(k) /\ RemovePost(k, p, u)
    \/ \E k \in Call : TxnWrite(k)
    \/ \E k \in Call : TxnFail(k)
    \/ \E k \in Call : Commit(k)
    \/ \E k \in Call : Return(k)
    \/ \E k \in Call : ReturnFail(k)
    \/ \E k \in Call, name \in Names : Alone(k) /\ CreateCategory(k, name)
    \/ \E k \in Call : SaveCategory(k)
    \/ \E k \in Call : SaveCategoryFail(k)
    \/ \E k \in Call, c \in CatIds : Alone(k) /\ RemoveCategory(k, c)
    \/ \E k \in Call : RemoveCategoryOrphans(k)
    \/ \E k \in Call : RemoveCategoryPull(k)
    \/ \E k \in Call : RemoveCategoryDelete(k)

SpecS == InitB /\ [][NextS]_vars

\* the requests of the posts controller, one at a time
NextP ==
    \/ \E k \in Call, name \in Names : Alone(k) /\ CreateCategory(k, name)
    \/ \E k \in Call : SaveCategory(k)
    \/ \E k \in Call, u \in Users, ids \in CategoryIdInputs :
           Alone(k) /\ CreatePost(k, u, "a", ids)
    \/ \E k \in Call : TxnWrite(k)
    \/ \E k \in Call : Commit(k)
    \/ \E k \in Call : Return(k)
    \/ \E k \in Call, u \in Users, p \in PostIds,
          dto \in {d \in UpdateDtos : d.authorId = ""} : PatchPost(k, u, p, dto)
    \/ \E k \in Call : PatchService(k)
    \/ \E k \in Call, u \in Users, p \in PostIds : DeletePost(k, u, p)
    \/ \E k \in Call : DeleteService(k)

SpecP == InitB /\ [][NextP]_vars

\* ================================================================ claims
IsDone(r, k) == req[r].pc = "done" /\ req[r].kind = k

\* r leaves the refresh guard in this step
GuardStep(r) == req[r].pc \in {"idle", "expiry"} /\ req'[r].kind = "refresh" /\ req'[r].pc # "expiry"

\* C1: of two concurrent refresh requests with the same token of the same
\* user, at most one rotates: when the removal of one request found the
\* record and the removal of the other found none, the other does not end
\* successfully (it fails and appends nothing).
C1_AtMostOneRotates ==
    \A r1 \in Req, r2 \in Req :
        ( /\ r1 # r2
          /\ req[r1].kind = "refresh" /\ req[r1].pc = "push" /\ req[r1].removed
          /\ IsDone(r2, "refresh") /\ ~req[r2].removed
          /\ req[r2].user = req[r1].user /\ req[r2].tok = req[r1].tok )
        => req[r2].res # "ok"

\* C2: once a refresh with token t_old has completed, the refresh guard
\* rejects t_old in every later state.
C2_OldTokenRejected ==
    \A e \in hist : e[2] = "refresh" => ~admits(e[1], refreshTokens[e[1].sub], now)

\* C3: a refresh whose append could not complete after its removal found the
\* old record leaves the old record in the store (fails closed).
C3_FailsClosed ==
    \A r \in Req :
        (IsDone(r, "refresh") /\ req[r].res = "error" /\ req[r].removed)
        => hasToken(refreshTokens[req[r].user], req[r].tok)

\* C4: the refresh guard admits a request for user u with token t only if
\* u's array holds, at the time of the check, a record with token t and
\* expiresAt >= now; a token that is absent from the array is rejected.
C4_GuardAdmitsOnlyLive ==
    [][\A r \in Req : GuardStep(r) =>
          LET q == req'[r]
              s == refreshTokens[q.user]
          IN /\ q.pc = "pull" => hasLiveToken(s, q.tok, now)
             /\ ~hasToken(s, q.tok) => (q.pc = "done" /\ q.res = "unauthorized")]_vars

C4_Witness ==
    \E r1 \in Req, r2 \in Req :
        /\ req[r1].kind = "refresh" /\ req[r1].pc = "pull"
        /\ IsDone(r2, "refresh") /\ req[r2].res = "unauthorized"
        /\ verifyRefresh(req[r2].tok, now)
        /\ ~hasToken(refreshTokens[req[r2].user], req[r2].tok)

\* C5: a successful login appends exactly one record to the user's array, the
\* returned refresh token is the token of that record and the record is not
\* expired, and right after the login the refresh guard admits the refresh
\* token and the access guard the access token.
C5_LoginAppendsLive ==
    [][\A r \in Req : (req[r].pc = "idle" /\ req'[r].kind = "login" /\ req'[r].res = "ok") =>
          LET q == req'[r]
              s == refreshTokens[q.user]
              n == refreshTokens'[q.user]
          IN /\ Len(n) = Len(s) + 1
             /\ SubSeq(n, 1, Len(s)) = s
             /\ n[Len(n)].token = q.newTok
             /\ n[Len(n)].expiresAt >= now'
             /\ admits(q.newTok, n, now')
             /\ verifyAccess(q.access, now')]_vars

C5_Witness ==
    \E r \in Req : IsDone(r, "login") /\ req[r].res = "ok"
                   /\ Len(refreshTokens[req[r].user]) = 2

\* C6: after logoutAll(u) has completed, the refresh guard rejects every
\* refresh token of u that the logoutAll cleared.
C6_ClearedTokenRejected ==
    \A e \in hist : e[2] = "logoutAll" => ~admits(e[1], refreshTokens[e[1].sub], now)

\* C7: the record a refresh appends carries the deviceInfo of the record that
\* held the old token: when the removal of a refresh finds the old record,
\* the record the request goes on to append has that record's deviceInfo.
C7_DeviceCarriedForward ==
    [][\A r \in Req : (req[r].pc = "pull" /\ req'[r].pc = "push" /\ req'[r].removed) =>
          rotatedRecord(req'[r], now).deviceInfo
              = findToken(refreshTokens[req[r].user], req[r].tok).deviceInfo]_vars

\* C8: when a user holds records of two devices, a logout with the token of
\* one of them removes only that record: the record of the other device is
\* still in the array and its token is still admitted by the refresh guard.
C8_OtherDeviceSurvives ==
    [][\A r \in Req : (req[r].pc = "idle" /\ req'[r].kind = "logout") =>
          LET q == req'[r]
              s == refreshTokens[q.user]
              n == refreshTokens'[q.user]
          IN \A i \in 1..Len(s), j \in 1..Len(s) :
                ( /\ s[i].token = q.tok
                  /\ s[j].deviceInfo # s[i].deviceInfo
                  /\ admits(s[j].token, s, now) )
                => /\ \E k \in 1..Len(n) : n[k] = s[j]
                   /\ admits(s[j].token, n, now')]_vars

\* C9: logout always reports success; when the token is not in the user's
\* array the store is left as it was; and a second logout with the same
\* token would change nothing (idempotence).
C9_LogoutIdempotent ==
    [][\A r \in Req : (req[r].pc = "idle" /\ req'[r].kind = "logout") =>
          LET q == req'[r]
          IN /\ q.pc = "done" /\ q.res = "ok"
             /\ ~hasToken(refreshTokens[q.user], q.tok) => refreshTokens' = refreshTokens
             /\ ~hasToken(refreshTokens'[q.user], q.tok)
             /\ pullToken(refreshTokens'[q.user], q.tok) = refreshTokens'[q.user]
             /\ lastLogin' = lastLogin]_vars

C9_Witness ==
    \E r \in Req :
        /\ IsDone(r, "logout") /\ ~req[r].removed /\ req[r].res = "ok"
        /\ verifyRefresh(req[r].tok, now)
        /\ refreshTokens[req[r].user] # <<>>

IsSweep(q) == q.kind \in {"sweep", "cron"}

sweepFailed(q) ==
    IsSweep(q) /\ q.body.message \in {"Internal server error", "Failed to cleanup expired tokens"}

\* the sweep in slot r updates the document of u in this step (a request
\* the guards turn away does not reach the sweep)
sweepStep(r, u) ==
    /\ req'[r] # req[r] /\ IsSweep(req'[r]) /\ ~sweepFailed(req'[r])
    /\ req'[r].res \notin {"unauthorized", "forbidden"}
    /\ \/ req[r].pc = "idle" /\ users # {} /\ u = firstOf(users)
       \/ req[r].pc = "sweep" /\ u = firstOf(req[r].todo)

sweptExactly(r, u) ==
    /\ refreshTokens'[u] = SelectSeq(refreshTokens[u], LAMBDA rec : rec.expiresAt >= req'[r].exp)
    /\ \A v \in Users \ {u} : refreshTokens'[v] = refreshTokens[v]

\* C10: a sweep called at time now removes from every user's array exactly
\* the records with expiresAt < now and keeps all others (those with
\* expiresAt = now included) in their order; of the other user fields it
\* changes updatedAt only, which it sets on every user document it updates.
C10_SweepExact ==
    [][\A r \in Req, u \in Users : sweepStep(r, u) =>
          /\ sweptExactly(r, u)
          /\ lastLogin' = lastLogin
          /\ updatedAt' = [updatedAt EXCEPT ![u] = now]]_vars

\* C10 as stated: ... and every other user field is untouched
C10_SweepTouchesNothingElse ==
    [][\A r \in Req, u \in Users : sweepStep(r, u) =>
          /\ sweptExactly(r, u)
          /\ lastLogin' = lastLogin
          /\ updatedAt' = updatedAt]_vars

C10_Witness ==
    \E r \in Req :
        /\ IsDone(r, "sweep") /\ req[r].removed /\ req[r].res = "ok"
        /\ \E u \in Users : \E i \in 1..Len(refreshTokens[u]) :
              refreshTokens[u][i].expiresAt = req[r].exp

\* C14: an access token that has not reached its own expiry is still
\* admitted by the access guard right after a logout has removed the refresh
\* record issued with it, and right after a logoutAll has cleared the whole
\* array of its user.
C14_AccessOutlivesLogout ==
    /\ \A r \in Req :
          (IsDone(r, "logout") /\ req[r].removed /\ now < req[r].tok.iat + AccessTTL)
          => verifyAccess(sign(req[r].tok.sub, "access", req[r].tok.iat), now)
    /\ \A r \in Req : IsDone(r, "logoutAll") =>
          \A i \in 0..now : now < i + AccessTTL
              => verifyAccess(sign(req[r].user, "access", i), now)

C14_Witness ==
    \E r1 \in Req, r2 \in Req :
        /\ IsDone(r1, "logout") /\ req[r1].removed
        /\ now < req[r1].tok.iat + AccessTTL
        /\ refreshTokens[req[r1].user] = <<>>
        /\ req[r2].pc = "idle"

\* C16: no user's array holds two records with the same token string.
C16_TokenUniquePerUser ==
    \A u \in Users : \A i \in 1..Len(refreshTokens[u]), j \in 1..Len(refreshTokens[u]) :
        i # j => refreshTokens[u][i].token # refreshTokens[u][j].token

\* C19: a token signed as a refresh token is never admitted by the access
\* guard, and a token signed as an access token is never admitted by the
\* refresh guard, under every configuration of the two secrets in which
\* login can sign.
C19_ClassesSeparated ==
    /\ \A u \in Users : \A i \in 1..Len(refreshTokens[u]) :
          ~verifyAccess(refreshTokens[u][i].token, now)
    /\ \A r \in Req :
          ((IsDone(r, "login") \/ IsDone(r, "refresh")) /\ req[r].res = "ok")
          => ~admits(req[r].access, refreshTokens[req[r].user], now)

\* every token string that can be signed up to now, of either class
Signable == {sign(u, c, i) : u \in Users, c \in {"access", "refresh"}, i \in 0..now}

C18_SameNoneNoChange ==
    [][\A r \in Req :
          (req[r].pc = "idle" /\ req'[r].kind = "login" /\ req'[r].res = "unauthorized") =>
          /\ \A e1 \in Emails \ users, e2 \in users, p1 \in Passwords, p2 \in Passwords \ {"pw"} :
                validateUser(e1, p1) = "" /\ validateUser(e2, p2) = validateUser(e1, p1)
          /\ UNCHANGED <<refreshTokens, lastLogin, updatedAt, users>>]_vars

C18_Witness ==
    \E r \in Req :
        /\ IsDone(r, "login") /\ req[r].res = "unauthorized"
        /\ \E u \in Users : refreshTokens[u] # <<>>

\* C17: every rejection by the refresh guard looks the same to the caller:
\* the response of a rejected request is the response any other token that
\* the guard does not admit would get.
C17_UniformRejection ==
    \A r \in Req : (IsDone(r, "refresh") /\ req[r].res = "unauthorized") =>
        \A t \in Presentable(now) :
            ~admits(t, refreshTokens[t.sub], now)
            => rejectMessage(t, refreshTokens[t.sub], now) = req[r].body.message

\* C12: the sweep, and the admin route that triggers it, return the number
\* of records the sweep removed: the response carries a count, which is
\* positive exactly when the sweep removed a record.
C12_SweepReturnsCount ==
    \A r \in Req : (IsDone(r, "sweep") /\ req[r].res = "ok") =>
        /\ "count" \in DOMAIN req[r].body
        /\ (req[r].body.count > 0) = req[r].removed

\* C11: the sweep is idempotent and tolerates overlapping runs.  Sweeping a
\* document again with the same cutoff removes nothing; two sweeps of a
\* document, in either order, leave what the one with the later cutoff alone
\* leaves; a sweep that comes to a document after an overlapping sweep with
\* the same cutoff removes no record from it; and when a sweep returns,
\* overlapped or not, no record with expiresAt before its cutoff is left in
\* any array (the last two where no record was stored already expired,
\* that is, with no new expirations).
C11_SweepIdempotent ==
    [][LET maxOf(a, b) == IF a < b THEN b ELSE a
           \* no record of the array was stored already expired (a refresh computes the
           \* expiry before its two store updates and stamps createdAt at the second)
           noneStoredExpired(s) == \A i \in 1..Len(s) : s[i].createdAt <= s[i].expiresAt
           \* another sweep that read the same cutoff has already updated the document of u
           sweptBefore(r, u) ==
               \E q \in Req \ {r} : req[q].pc = "sweep" /\ req[q].exp = req'[r].exp /\ u \notin req[q].todo
       IN
       \A r \in Req, u \in Users : sweepStep(r, u) =>
          LET c == req'[r].exp
              s == refreshTokens[u]
          IN /\ pullExpired(refreshTokens'[u], c) = refreshTokens'[u]
             /\ \A c2 \in 0..now :
                   /\ pullExpired(pullExpired(s, c2), c) = pullExpired(s, maxOf(c, c2))
                   /\ pullExpired(pullExpired(s, c), c2) = pullExpired(s, maxOf(c, c2))
             /\ (sweptBefore(r, u) /\ noneStoredExpired(s)) => refreshTokens'[u] = s
             /\ req'[r].pc = "done" =>
                   \A v \in users : noneStoredExpired(refreshTokens'[v]) =>
                       pullExpired(refreshTokens'[v], c) = refreshTokens'[v]]_vars

\* a sweep that removed records is still running; the sweep that started after
\* it with the same cutoff has returned and removed nothing
C11_Witness ==
    \E r, q \in Req :
        /\ req[r].pc = "sweep" /\ req[r].removed
        /\ req[q].pc = "done" /\ IsSweep(req[q]) /\ ~sweepFailed(req[q])
        /\ req[q].exp = req[r].exp /\ ~req[q].removed

\* C13: a sweep interleaved with login, refresh, logout and logoutAll never
\* removes a record whose expiresAt >= now, and loses no record that a
\* login or refresh appends while it runs: the record is the last of the
\* array when the login or refresh returns, and a sweep step keeps every
\* record that has not expired by the cutoff, in order.
C13_SweepKeepsLive ==
    [][LET sweepRunning == \E r \in Req : req[r].pc = "sweep"
           live(s, t) == SelectSeq(s, LAMBDA rec : rec.expiresAt >= t)
       IN
       /\ \A r \in Req, u \in Users : sweepStep(r, u) =>
             /\ live(refreshTokens'[u], now) = live(refreshTokens[u], now)
             /\ live(refreshTokens'[u], req'[r].exp) = live(refreshTokens[u], req'[r].exp)
       /\ \A r \in Req :
             (sweepRunning /\ req[r].pc # "done" /\ req'[r].pc = "done" /\ req'[r].res = "ok"
                /\ req'[r].kind \in {"login", "refresh"}) =>
             LET n == refreshTokens'[req'[r].user]
             IN /\ n # <<>>
                /\ n[Len(n)].token = req'[r].newTok
                /\ n[Len(n)].createdAt = now
                /\ SubSeq(n, 1, Len(n) - 1) = refreshTokens[req'[r].user]]_vars

\* a login of u2 returns while a sweep has still to update the document of
\* u2, which holds an expired record next to the one just appended
C13_Witness ==
    \E r, q \in Req :
        /\ req[r].pc = "sweep" /\ req[r].todo = {"u2"}
        /\ IsDone(q, "login") /\ req[q].res = "ok" /\ req[q].user = "u2"
        /\ \E i \in 1..Len(refreshTokens["u2"]) : refreshTokens["u2"][i].expiresAt < req[r].exp

\* C20: the scheduled sweep never lets a failure out: when updateMany
\* fails, cleanupExpiredTokens logs the error and returns normally, and the
\* failure changes nothing in the store.
C20_CronSwallowsFailure ==
    [][\A r \in Req :
          (req'[r] # req[r] /\ req'[r].pc = "done" /\ req'[r].kind = "cron") =>
          /\ req'[r].res = "ok"
          /\ sweepFailed(req'[r]) =>
                /\ req'[r].body.message = "Failed to cleanup expired tokens"
                /\ UNCHANGED <<refreshTokens, lastLogin, updatedAt, users>>]_vars

\* the scheduled sweep failed after it had removed records, with an expired
\* record left in a document it had not reached
C20_Witness ==
    \E r \in Req :
        /\ IsDone(r, "cron") /\ sweepFailed(req[r]) /\ req[r].removed
        /\ \E u \in users : pullExpired(refreshTokens[u], req[r].exp) # refreshTokens[u]

\* C21: POST /auth/logout with no refresh token in the refresh_token cookie
\* and none in the Authorization header changes nothing in the store
\* (updatedAt included), clears both cookies and reports success.
C21_LogoutWithoutToken ==
    [][\A r \in Req :
          (req[r].pc = "idle" /\ req'[r].kind = "logout" /\ req'[r].tok = NoToken) =>
          /\ UNCHANGED <<refreshTokens, lastLogin, updatedAt, users>>
          /\ req'[r].clear = AuthCookies
          /\ req'[r].res = "ok"
          /\ req'[r].body.message = "Logged out successfully (no token found)"]_vars

\* such a logout has returned to a user who holds a refresh record
C21_Witness ==
    \E r \in Req :
        /\ IsDone(r, "logout") /\ req[r].tok = NoToken
        /\ refreshTokens[req[r].user] # <<>>
        /\ updatedAt[req[r].user] < now

C23_ResponsesSanitized ==
    \A r \in Req :
        (req[r].pc = "done" /\ req[r].kind \in {"profile", "me", "login", "register"}
           /\ req[r].res = "ok") =>
        /\ "user" \in DOMAIN req[r].body
        /\ DOMAIN req[r].body.user \cap {"password", "refreshTokens"} = {}
        /\ DOMAIN req[r].body \cap {"password", "refreshTokens"} = {}

\* a profile was returned for a user whose document holds refresh records
C23_Witness ==
    \E r \in Req :
        /\ IsDone(r, "profile") /\ "user" \in DOMAIN req[r].body
        /\ refreshTokens[req[r].user] # <<>>

\* C24: a revoked or expired refresh token never becomes live again: a
\* token string that a refresh, a logout, a logoutAll or a sweep has taken
\* out of a user's array is not admitted by the refresh guard in any later
\* state, and neither is a stored token whose expiresAt has passed.
C24_RevokedStaysDead ==
    /\ \A e \in hist : e[2] \in {"refresh", "logout", "logoutAll", "sweep"} =>
           ~admits(e[1], refreshTokens[e[1].sub], now)
    /\ \A u \in Users : \A i \in 1..Len(refreshTokens[u]) :
           (\A j \in 1..Len(refreshTokens[u]) :
                refreshTokens[u][j].token = refreshTokens[u][i].token
                => refreshTokens[u][j].expiresAt < now)
           => ~admits(refreshTokens[u][i].token, refreshTokens[u], now)

\* C25: logoutAll invalidates every session even against a refresh in
\* flight: when a refresh of u that the guard admitted before logoutAll(u)
\* cleared the array, and that makes its store updates afterwards, has
\* finished, the array of u holds no live record with the token of that
\* refresh (the refresh has not re-created a session).
C25_LogoutAllBeatsRefresh ==
    \A r \in Req : (IsDone(r, "refresh") /\ req[r].cleared) =>
        ~hasLiveToken(refreshTokens[req[r].user], req[r].newTok, now)

\* C26: the stored expiresAt of a record created by login or refresh is
\* its creation time plus the configured refresh lifetime, that is the
\* expiry embedded in the signed refresh token, for every format of
\* JWT_REFRESH_EXPIRATION the signer accepts (d, h, m, s, plain number).
C26_StoredExpiryIsTokenExpiry ==
    \A u \in Users : \A i \in 1..Len(refreshTokens[u]) :
        LET rec == refreshTokens[u][i]
        IN  /\ rec.expiresAt = rec.token.exp
            /\ rec.expiresAt = rec.createdAt + (ms(secrets.expiration) \div 1000)

\* r removes by token in this step: a logout, or the $pull of a refresh
removeStep(r) ==
    \/ req[r].pc = "idle" /\ req'[r].kind = "logout"
    \/ req[r].pc = "pull" /\ req'[r].pc = "push"

\* C27: a removal by token (a logout, or the remove step of a refresh)
\* deletes at most one record: the user's array gets shorter by at most 1.
C27_RemovesAtMostOne ==
    [][\A r \in Req : removeStep(r) =>
          Len(refreshTokens'[req'[r].user]) >= Len(refreshTokens[req'[r].user]) - 1]_vars

\* C28: credential operations are scoped to one user: the store update of
\* a login, refresh, logout or logoutAll for u leaves the array of every
\* other user unchanged, and leaves the records of u other than the one
\* appended or removed unchanged; a logout of u with a token of another
\* user removes nothing.
C28_ScopedToOneUser ==
    [][LET \* a logout of u with a token signed for another user removes nothing
           foreignRemovesNothing(r) ==
               (req'[r].kind = "logout" /\ req'[r].tok.sub # req'[r].user)
                   => refreshTokens' = refreshTokens
           \* n is s, or s with one record taken out
           atMostOneRemoved(s, n) ==
               \/ n = s
               \/ \E i \in 1..Len(s) : n = SubSeq(s, 1, i - 1) \o SubSeq(s, i + 1, Len(s))
           \* n is s with one record appended
           oneAppended(s, n) == Len(n) = Len(s) + 1 /\ SubSeq(n, 1, Len(s)) = s
           \* the arrays of the users other than the one r acts for are as they were
           othersUnchanged(r) ==
               \A v \in Users \ {req'[r].user} : refreshTokens'[v] = refreshTokens[v]
           clearStep(r) == req[r].pc = "idle" /\ req'[r].kind = "logoutAll"
           \* r makes a store update of a credential operation in this step: the
           \* update of a login, a logout or a logoutAll, or one of the two of a refresh
           appendStep(r) ==
               \/ req[r].pc = "idle" /\ req'[r].kind = "login" /\ req'[r].res = "ok"
               \/ req[r].pc = "push" /\ req'[r].pc = "done" /\ req'[r].res = "ok"
       IN
       \A r \in Req :
          LET s == refreshTokens[req'[r].user]
              n == refreshTokens'[req'[r].user]
          IN  /\ (appendStep(r) \/ removeStep(r) \/ clearStep(r)) => othersUnchanged(r)
              /\ appendStep(r) => oneAppended(s, n)
              /\ removeStep(r) => atMostOneRemoved(s, n) /\ foreignRemovesNothing(r)]_vars

\* some record of u has its expiresAt behind the clock
holdsExpired(u) == \E i \in 1..Len(refreshTokens[u]) : refreshTokens[u][i].expiresAt < now

\* C29: expired records are eventually removed: with the sweep scheduled
\* again and again and a run eventually getting through, whenever the
\* array of a user holds records whose expiresAt has passed, a later state
\* holds none of them, also after a sweep that failed.
C29_ExpiredEventuallyRemoved ==
    \A u \in Users : holdsExpired(u) ~> ~holdsExpired(u)

C29_Witness ==
    \E r \in Req, u \in Users :
        /\ IsDone(r, "cron") /\ sweepFailed(req[r])
        /\ holdsExpired(u)

\* C30: lazy self-healing: a refresh attempt that presents a token whose
\* stored record has expiresAt < now is rejected, and when the guard has
\* rejected it that expired record is no longer in the store.
C30_LazySelfHealing ==
    [][LET \* the array s holds a record with token t whose expiresAt is before at
           hasExpiredToken(s, t, at) == \E i \in 1..Len(s) : s[i].token = t /\ s[i].expiresAt < at
       IN
       \A r \in Req :
          (GuardStep(r) /\ hasExpiredToken(refreshTokens[req'[r].user], req'[r].tok, now)) =>
              /\ req'[r].pc = "done" /\ req'[r].res # "ok"
              /\ ~hasExpiredToken(refreshTokens'[req'[r].user], req'[r].tok, now)]_vars

\* C31: token extraction is cookie-first with header fallback and is
\* consistent: whatever the refresh_token cookie and the Authorization
\* header of the request are, the string validate looks up in the store is
\* the token string whose signature passport-jwt verified.
C31_LookupIsVerified ==
    \A r \in Req : (req[r].kind = "refresh" /\ req[r].lookup # Absent) =>
        req[r].lookup = Str(req[r].tok)

\* C32: the token POST /auth/logout hands to the store removal is the
\* caller's refresh token: when a client that sends no cookies and
\* authenticates with the Authorization header has logged out successfully,
\* the token removed was not the access token of that header, and the
\* refresh token issued with that access token is no longer admitted by the
\* refresh guard.
C32_LogoutRemovesRefreshToken ==
    [][\A r \in Req :
          LET q == req'[r]
              session == sign(q.user, "refresh", q.access.iat)
          IN ( /\ req[r].pc = "idle" /\ q.kind = "logout" /\ q.res = "ok"
               /\ q.access # NoToken /\ q.sent = {}
               /\ admits(session, refreshTokens[q.user], now) ) =>
                   /\ q.tok # q.access
                   /\ ~admits(session, refreshTokens'[q.user], now)]_vars

\* C33: post creation is all-or-nothing: when PostsService.create returns
\* or throws from inside its transaction scope, either the post exists and
\* its id is in the author's posts and in the posts of every listed
\* category, or none of the three changes is visible; and the session has
\* been ended.
C33_CreateAllOrNothing ==
    [][LET \* call k leaves the transaction scope it was in: it returns or throws
           leavesScope(k) ==
               calls[k].pc \in {"txn", "committed"} /\ calls'[k].pc = "idle"
       IN
       \A k \in Call :
          (calls[k].kind = "create" /\ leavesScope(k)) =>
              LET p == calls[k].post
                  u == calls[k].user
                  ids == calls[k].dto.categoryIds
              IN  /\ \/ /\ posts'[p].state = "live"
                        /\ includes(userPosts'[u], p)
                        /\ \A c \in Range(ids) : includes(categories'[c].posts, p)
                     \/ /\ posts'[p].state = "none"
                        /\ ~includes(userPosts'[u], p)
                        /\ \A c \in CatIds : ~includes(categories'[c].posts, p)
                  /\ calls'[k].session = "ended"]_vars

C33_Witness ==
    \E k \in Call :
        /\ calls[k].kind = "create" /\ calls[k].pc = "idle"
        /\ calls[k].res = "error" /\ calls[k].session = "ended"
        /\ \A p \in PostIds : posts[p].state = "none"
        /\ \E c \in CatIds : liveCategory(store, c)

\* C34: reference bookkeeping is bidirectionally consistent: after any
\* sequence of committed post create, update, remove and category remove
\* calls, post p lists category c exactly when c.posts holds p, once, and
\* p.authorId is u exactly when u.posts holds p; a post that is deleted is
\* gone together with its references.
C34_ReferencesConsistent ==
    LET \* how often the array holds x
        count(arr, x) == Cardinality({i \in 1..Len(arr) : arr[i] = x})
        \* no category removal stands between its $pull and its delete
        Committed == \A k \in Call : calls[k].pc # "delete"
    IN
    Committed =>
        /\ \A p \in PostIds, c \in CatIds :
               /\ (livePost(store, p) /\ includes(posts[p].categories, c))
                      <=> includes(categories[c].posts, p)
               /\ count(categories[c].posts, p) <= 1
        /\ \A p \in PostIds, u \in Users :
               /\ (livePost(store, p) /\ posts[p].authorId = u) <=> includes(userPosts[u], p)
               /\ count(userPosts[u], p) <= 1

\* C35: deleting a category never leaves a post with zero categories:
\* CategoriesService.remove refuses with Conflict when some post has only
\* that category, and whatever post create or update runs at the same time,
\* no post ends up with an empty categories list or with a reference to a
\* deleted category.
C35_NoPostWithoutCategory ==
    [][LET \* every post lists at least one category and no deleted one
           everyPostCategorised ==
               \A p \in PostIds :
                   livePost(store, p) =>
                       /\ posts[p].categories # <<>>
                       /\ \A c \in Range(posts[p].categories) : categories[c].state # "deleted"
       IN
       /\ everyPostCategorised'
       /\ \A k \in Call :
              ( /\ calls[k].pc = "orphans" /\ calls'[k].pc # "orphans"
                /\ \E p \in listing(calls[k].cat) : Len(posts[p].categories) = 1 ) =>
                    /\ calls'[k].pc = "idle" /\ calls'[k].res = "Conflict"
                    /\ posts' = posts /\ categories' = categories]_vars

\* C36: post update and delete through the controller are permitted
\* exactly for the post's author and for admins: PATCH /posts/:id with
\* real changes, or DELETE /posts/:id, of such a caller reaches
\* PostsService and completes successfully; a request that is answered
\* Forbidden changes no state.
C36_AuthorOrAdminOnly ==
    [][LET \* the dto asks for a change of the post that the service accepts
           realChanges(dto, post) ==
               /\ dto.categoryIds # NoIds =>
                      Cardinality(findCategories(dto.categoryIds)) = Len(dto.categoryIds)
               /\ checked("patch", 1, dto, post, "").pc = "txn"
       IN
       \A k \in Call :
          LET c == calls[k]
          IN  /\ ( /\ c.pc = "service" /\ calls'[k].pc = "idle"
                   /\ permitted(c.user, posts[c.post])
                   /\ c.kind = "patch" => realChanges(c.dto, posts[c.post]) ) =>
                       calls'[k].res = "ok"
              /\ ( /\ c.pc = "idle" /\ calls'[k] # c
                   /\ calls'[k].kind \in {"patch", "delete"}
                   /\ calls'[k].res = "Forbidden" ) =>
                       /\ posts' = posts
                       /\ categories' = categories
                       /\ userPosts' = userPosts]_vars

\* C37: creating a category whose name already exists fails with a
\* Conflict error, not an internal error, and creates no category.
C37_DuplicateNameConflict ==
    [][\A k \in Call, name \in Names :
          ( /\ \E c \in CatIds : liveCategory(store, c) /\ categories[c].name = name
            /\ CreateCategory(k, name) ) =>
                /\ calls'[k].res = "Conflict"
                /\ categories' = categories]_vars

====
